---- MODULE Spec2Model ----
(***************************************************************************)
(* Access-control and quota state machine of the legal-assistant backend:  *)
(* the users table (entitlement, trial counter, soft delete), the          *)
(* user_sessions table (session registry) and the request tasks that run   *)
(* against them.  Time is counted in days.  A nullable column or an        *)
(* Option<T> is a set with at most one element: {} is NULL / None, {v} is  *)
(* the value v.  Every SQL statement is one atomic step.                   *)
(***************************************************************************)
EXTENDS Integers, FiniteSets, Sequences, TLC

None == {}
Some(v) == {v}

\* ------------------------------------------------------------------ bounds
MaxTime == 45
TickDays == 15
RaceMaxCounter == 2

MaxOps == 1
MaxAuthTokens == 2
MaxAuthOps == 3

\* ------------------------------------------------------- program constants
MAX_CONCURRENT_SESSIONS == 5
SESSION_TTL_DAYS == 30
REVOKED_RETENTION_DAYS == 7
STALE_RETENTION_DAYS == 90
TRIAL_MESSAGES == 5
INDIVIDUAL_MONTHLY_MESSAGES == 20
MONTHLY_RESET_DAYS == 30
GRACE_PERIOD_DAYS == 30
MONTHLY_PERIOD_DAYS == 30
YEARLY_PERIOD_DAYS == 365

Users == {"u1", "u2"}
\* The accounts requests and subscription operations are made for; every
\* other row is one each statement has to leave alone.
Callers == {"u1"}
Tasks == {"t1", "t2"}
AuthTasks == {"t1"}

AccountTypes == {"trial_registered", "individual", "professional", "team", "premium"}
UnlimitedTypes == {"professional", "team", "premium"}
PlanIds == {"individual", "professional", "team"}
BillingPeriods == {"monthly", "yearly"}
\* plan_id values a create-subscription request may carry.
RequestPlanIds == PlanIds \cup {"premium", "basic"}

\* Bearer tokens: token n issued to account sub, its signature valid.  A
\* caller holds enough of them to log in once more than the session cap
\* allows, any other account holds one.
Tokens ==
    {k \in [sub : Users, n : 1..(MAX_CONCURRENT_SESSIONS + 1)] : k.sub \in Callers \/ k.n = 1}
\* The tokens issued to the install that sends a device session id, at its
\* login and at its refresh after another install logged in; the other
\* tokens belong to installs that send none.
DeviceTokenNumbers == {1, 3}
\* The stable per-install identifiers a client may send.
DeviceIds == {"d1"}

VARIABLES now, users, task, sessions, last, ops, ip_trial_limits, authentication_tokens,
          webhook_secret, revoked_at

vars == <<now, users, task, sessions, last, ops, ip_trial_limits, authentication_tokens,
         webhook_secret, revoked_at>>

\* The tables only the trial and the single-use token operations write, the
\* REVENUECAT_WEBHOOK_SECRET of the deployment, and the time at which each
\* session was revoked: user_sessions has no column for it, it is kept to
\* state how long a session has been revoked.
side_tables == <<ip_trial_limits, authentication_tokens, webhook_secret, revoked_at>>

\* The values REVENUECAT_WEBHOOK_SECRET can have; "" when it is not set.
Secrets == {"", "s1", "s2"}

\* No IP has a trial record, no single-use token was issued, a webhook
\* secret is configured, and no session was revoked.
NoSideTables ==
    /\ ip_trial_limits = << >>
    /\ authentication_tokens = {}
    /\ webhook_secret = "s1"
    /\ revoked_at = {}

\* ------------------------------------------------------------ users table

\* The row link_user_handler inserts for a new registration.
NewUser(t) ==
    [account_type |-> "trial_registered",
     account_status |-> "active",
     deleted_at |-> None,
     trial_messages_remaining |-> Some(TRIAL_MESSAGES),
     premium_expires_at |-> None,
     subscription_started_at |-> None,
     updated_at |-> t]

\* The last session operation: its arguments, whether the table held the
\* hash of its token when it was called, and what it returned, an error or Ok
\* with an id or none.
NoCall == [op |-> "none", args |-> <<>>, known |-> FALSE, err |-> FALSE, id |-> None]

IdleTask ==
    [pc |-> "idle", user |-> "u1", dec |-> "none", resp |-> "none",
     token |-> None, dev |-> None, auth |-> None, sid |-> None, ids |-> {},
     loaded |-> None]

Init ==
    /\ now = 0
    /\ users = [u \in Users |-> NewUser(0)]
    /\ task = [p \in Tasks |-> IdleTask]
    /\ sessions = {}
    /\ last = NoCall
    /\ ops = 0
    /\ NoSideTables

\* ---------------------------------------------------------------- helpers

\* Some(x) > 0 in SQL and Option::unwrap_or(0) > 0 in Rust: NULL is not positive.
Positive(opt) == \E v \in opt : v > 0

SetRow(us, u, r) == [us EXCEPT ![u] = r]

\* ------------------------------------------------- soft delete and restore

\* Mutant: any deleted row matches, however long ago it was deleted.
RestoreMatches_NoWindow(r, t) ==
    /\ r.account_status = "deleted"
    /\ r.deleted_at # None

\* WHERE clause of restore_user's UPDATE.
RestoreMatches(r, t) ==
    /\ r.account_status = "deleted"
    /\ \E d \in r.deleted_at : d > t - GRACE_PERIOD_DAYS

\* restore_user's UPDATE ... RETURNING * found a row: Ok(user), else RowNotFound.
RestoreReturns(us, u, t) == u \in DOMAIN us /\ RestoreMatches(us[u], t)

\* Mutant: the deletion marker is left in place.
restore_user_KeepsMarker(us, u, t) ==
    IF RestoreReturns(us, u, t)
    THEN SetRow(us, u, [us[u] EXCEPT !.account_status = "active", !.updated_at = t])
    ELSE us

restore_user(us, u, t) ==
    IF RestoreReturns(us, u, t)
    THEN SetRow(us, u, [us[u] EXCEPT !.account_status = "active",
                                     !.deleted_at = None,
                                     !.updated_at = t])
    ELSE us

\* get_user's branch that auto-restores: the row is deleted and still within
\* its grace period.
GetUserRestores(r, t) ==
    /\ r.account_status = "deleted"
    /\ \E d \in r.deleted_at : t < d + GRACE_PERIOD_DAYS

\* The table after get_user(Some(u)).
get_user_table(us, u, t) ==
    IF u \in DOMAIN us /\ us[u].account_status # "active" /\ GetUserRestores(us[u], t)
    THEN restore_user(us, u, t)
    ELSE us

\* The Option<User> get_user(Some(u)) returns.
get_user(us, u, t) ==
    IF u \notin DOMAIN us THEN None
    ELSE IF us[u].account_status = "active" THEN Some(us[u])
    ELSE IF GetUserRestores(us[u], t) THEN Some(get_user_table(us, u, t)[u])
    ELSE None

\* Mutant: the row is marked deleted without a deletion time.
soft_delete_user_StatusOnly(us, u, t) ==
    IF u \in DOMAIN us
    THEN SetRow(us, u, [us[u] EXCEPT !.account_status = "deleted", !.updated_at = t])
    ELSE us

soft_delete_user(us, u, t) ==
    IF u \in DOMAIN us
    THEN SetRow(us, u, [us[u] EXCEPT !.account_status = "deleted",
                                     !.deleted_at = Some(t),
                                     !.updated_at = t])
    ELSE us

is_within_grace_period(us, u, t) ==
    /\ u \in DOMAIN us
    /\ us[u].account_status = "deleted"
    /\ \E d \in us[u].deleted_at : t < d + GRACE_PERIOD_DAYS

\* Mutant: every deleted account counts as expired.
get_expired_deleted_users_AnyDeleted(us, t) ==
    {u \in DOMAIN us : us[u].account_status = "deleted" /\ us[u].deleted_at # None}

get_expired_deleted_users(us, t) ==
    {u \in DOMAIN us : /\ us[u].account_status = "deleted"
                       /\ \E d \in us[u].deleted_at : d < t - GRACE_PERIOD_DAYS}

\* DELETE FROM users WHERE id = u, directly or through auth.users.
permanently_delete_user(us, u) == [v \in DOMAIN us \ {u} |-> us[v]]

\* cancel_subscription's UPDATE; next_billing_date is the value of that column.
cancel_subscription(us, u, next_billing_date, t) ==
    IF u \in DOMAIN us
    THEN SetRow(us, u, [us[u] EXCEPT !.premium_expires_at = next_billing_date,
                                     !.subscription_started_at = None,
                                     !.updated_at = t])
    ELSE us

\* The two kinds of bearer token verify_any_token accepts.
TokenKinds == {"supabase", "custom"}

\* verify_any_token for a token of account u with a valid signature: a
\* Supabase token resolves only to an active row, a custom one to its subject.
verify_any_token(us, u, kind) ==
    IF kind = "supabase" THEN u \in DOMAIN us /\ us[u].account_status = "active" ELSE TRUE

\* verify_user_from_headers_async; session is what the session registry makes
\* of the token: a validated or updated session or a store error (TRUE), or
\* no active session (FALSE).
verify_user_from_headers_async(us, u, kind, session) ==
    IF verify_any_token(us, u, kind) /\ session THEN Some(u) ELSE None

\* ------------------------------------------------------------- entitlement

\* Mutant: the month has to be over by more than an instant.
ResetDue_StrictlyLater(r, t) ==
    /\ r.account_type = "individual"
    /\ r.subscription_started_at # None
    /\ \/ r.trial_messages_remaining = None
       \/ /\ r.trial_messages_remaining = Some(0)
          /\ t - r.updated_at > MONTHLY_RESET_DAYS

\* WHERE clause of the monthly-reset sweep.
ResetDue(r, t) ==
    /\ r.account_type = "individual"
    /\ r.subscription_started_at # None
    /\ \/ r.trial_messages_remaining = None
       \/ /\ r.trial_messages_remaining = Some(0)
          /\ t - r.updated_at >= MONTHLY_RESET_DAYS

auto_reset_individual_monthly_limits(us, t) ==
    [u \in DOMAIN us |->
        IF ResetDue(us[u], t)
        THEN [us[u] EXCEPT !.trial_messages_remaining = Some(INDIVIDUAL_MONTHLY_MESSAGES),
                           !.updated_at = t]
        ELSE us[u]]

\* The decision can_send_message takes on the row get_user returned.
Entitled(row, t) ==
    IF \E e \in row.premium_expires_at : e < t
    THEN Positive(row.trial_messages_remaining)
    ELSE IF row.account_type \in {"professional", "premium"}
    THEN TRUE
    ELSE Positive(row.trial_messages_remaining)

\* The table after can_send_message(Some(u)): the sweep, then get_user.
can_send_message_table(us, u, t) ==
    get_user_table(auto_reset_individual_monthly_limits(us, t), u, t)

\* The boolean can_send_message(Some(u)) returns.
can_send_message(us, u, t) ==
    LET swept == auto_reset_individual_monthly_limits(us, t)
        found == get_user(swept, u, t)
    IN  \E row \in found : Entitled(row, t)

\* Mutant: the guard trial_messages_remaining > 0 is left out of the WHERE clause.
DecrementMatches_NoFloor(r) ==
    /\ r.account_type \notin UnlimitedTypes
    /\ r.trial_messages_remaining # None

\* WHERE clause of decrement_trial_message's UPDATE.
DecrementMatches(r) ==
    /\ r.account_type \notin UnlimitedTypes
    /\ Positive(r.trial_messages_remaining)

\* Mutant: the counter is lowered whether or not the WHERE clause matches.
decrement_trial_message_table_Unguarded(us, u, t) ==
    SetRow(us, u, [us[u] EXCEPT
        !.trial_messages_remaining = {v - 1 : v \in us[u].trial_messages_remaining},
        !.updated_at = t])

decrement_trial_message_table(us, u, t) ==
    IF DecrementMatches(us[u])
    THEN SetRow(us, u, [us[u] EXCEPT
             !.trial_messages_remaining = {v - 1 : v \in us[u].trial_messages_remaining},
             !.updated_at = t])
    ELSE us

\* Mutant: rows_affected is not looked at.
decrement_trial_message_Unchecked(us, u) == "ok"

\* Ok(()) or the error of zero affected rows.
decrement_trial_message(us, u) ==
    IF DecrementMatches(us[u]) THEN "ok" ELSE "no_quota"

\* ------------------------------------------------------------ subscription

\* create_subscription_handler's mapping of plan_id to account_type.
PlanAccountType(plan_id) ==
    CASE plan_id = "individual" -> "individual"
      [] plan_id = "professional" -> "professional"
      [] plan_id = "team" -> "team"
      [] plan_id = "premium" -> "professional"
      [] OTHER -> "professional"

PeriodDays(billing_period) ==
    IF billing_period = "monthly" THEN MONTHLY_PERIOD_DAYS ELSE YEARLY_PERIOD_DAYS

create_subscription(us, u, plan_id, billing_period, t) ==
    LET account_type == PlanAccountType(plan_id)
        counter == CASE account_type = "individual" -> Some(INDIVIDUAL_MONTHLY_MESSAGES)
                     [] account_type \in {"professional", "team"} -> None
                     [] OTHER -> us[u].trial_messages_remaining
    IN  SetRow(us, u, [us[u] EXCEPT
            !.account_type = account_type,
            !.premium_expires_at = Some(t + PeriodDays(billing_period)),
            !.subscription_started_at = Some(t),
            !.trial_messages_remaining = counter,
            !.updated_at = t])

change_plan(us, u, plan_id, t) ==
    SetRow(us, u, [us[u] EXCEPT
        !.account_type = plan_id,
        !.subscription_started_at = Some(t),
        !.trial_messages_remaining =
            IF plan_id = "individual" THEN Some(INDIVIDUAL_MONTHLY_MESSAGES) ELSE None,
        !.updated_at = t])

\* The SubscriptionStatus values get_subscription_status can build at time t:
\* the entitlement decides account_type and is_active, the unexpired
\* subscription (if any) decides expires_at and in_grace_period.
SubscriptionStatuses(t) ==
    {s \in [account_type : {"professional", "individual", "trial_registered"},
            is_active : BOOLEAN,
            expires_at : {None, Some(t + MONTHLY_PERIOD_DAYS)},
            in_grace_period : BOOLEAN] :
        /\ s.is_active = (s.account_type # "trial_registered")
        /\ s.in_grace_period => s.expires_at # None}

\* Mutant: a downgrade keeps the counter the row has.
update_user_subscription_KeepsCounter(us, u, status, t) ==
    LET downgrade == ~status.is_active /\ ~status.in_grace_period
    IN  SetRow(us, u, [us[u] EXCEPT
            !.account_type = IF downgrade THEN "trial_registered" ELSE status.account_type,
            !.premium_expires_at = status.expires_at,
            !.updated_at = t])

update_user_subscription(us, u, status, t) ==
    LET downgrade == ~status.is_active /\ ~status.in_grace_period
        final_account_type == IF downgrade THEN "trial_registered" ELSE status.account_type
        messages_remaining ==
            IF downgrade THEN Some(0)
            ELSE CASE status.account_type = "individual" -> Some(INDIVIDUAL_MONTHLY_MESSAGES)
                   [] status.account_type = "professional" -> None
                   [] OTHER -> Some(TRIAL_MESSAGES)
    IN  SetRow(us, u, [us[u] EXCEPT
            !.account_type = final_account_type,
            !.premium_expires_at = status.expires_at,
            !.trial_messages_remaining = messages_remaining,
            !.updated_at = t])

\* ---------------------------------------------------------- user_sessions

\* SHA-256 of the raw token: one-way, and never the token itself.
hash_token(token) == <<"sha256", token.sub, token.n>>

\* revoked = false AND expires_at > NOW()
ActiveRow(r, t) == ~r.revoked /\ r.expires_at > t

ActiveSessions(ss, u, t) == {r \in ss : r.user_id = u /\ ActiveRow(r, t)}

Oldest_Descending(rows) == {r \in rows : \A o \in rows : r.last_seen_at >= o.last_seen_at}
\* The rows ORDER BY last_seen_at ASC LIMIT 1 may pick.
Oldest(rows) == {r \in rows : \A o \in rows : r.last_seen_at <= o.last_seen_at}

\* The rows ORDER BY last_seen_at DESC LIMIT 1 may pick.
MostRecent(rows) == {r \in rows : \A o \in rows : r.last_seen_at >= o.last_seen_at}

\* The staleness predicate of both cleanup statements.
Stale(r, t) ==
    \/ r.expires_at < t
    \/ r.revoked /\ r.last_seen_at < t - REVOKED_RETENTION_DAYS
    \/ ~r.revoked /\ r.last_seen_at < t - STALE_RETENTION_DAYS

cleanup_sessions(ss, t) == {r \in ss : ~Stale(r, t)}

cleanup_user_sessions(ss, u, t) == {r \in ss : ~(r.user_id = u /\ Stale(r, t))}

Replace(ss, old, new) == (ss \ {old}) \cup {new}

\* gen_random_uuid(): an id no row of the table carries.
FreshId(ss) == CHOOSE i \in 1..(Cardinality(ss) + 1) : \A r \in ss : r.id # i

ValidateMatches_IgnoringRevoked(ss, token, t) ==
    {r \in ss : r.session_token_hash = hash_token(token) /\ r.expires_at > t}
\* validate_session's UPDATE ... RETURNING id.
ValidateMatches(ss, token, t) ==
    {r \in ss : r.session_token_hash = hash_token(token) /\ ActiveRow(r, t)}

validate_session_table(ss, token, t) ==
    {IF r \in ValidateMatches(ss, token, t) THEN [r EXCEPT !.last_seen_at = t] ELSE r : r \in ss}

validate_session(ss, token, t) == {r.id : r \in ValidateMatches(ss, token, t)}

revoke_session_table(ss, sid, u) ==
    {IF r.id = sid /\ r.user_id = u THEN [r EXCEPT !.revoked = TRUE] ELSE r : r \in ss}

revoke_session(ss, sid, u) == \E r \in ss : r.id = sid /\ r.user_id = u

revoke_all_sessions(ss, u, except_token) ==
    {IF r.user_id = u /\ (\A k \in except_token : r.session_token_hash # hash_token(k))
     THEN [r EXCEPT !.revoked = TRUE] ELSE r : r \in ss}

\* One result of a session operation: the table it leaves and what it returns.
Outcome(ss, err, id) == [table |-> ss, err |-> err, id |-> id]

NewSession(ss, u, token, dev, t) ==
    [id |-> FreshId(ss), user_id |-> u, session_token_hash |-> hash_token(token),
     device |-> dev, last_seen_at |-> t, expires_at |-> t + SESSION_TTL_DAYS,
     revoked |-> FALSE]

Rotated_NoExtension(r, token, t) ==
    [r EXCEPT !.session_token_hash = hash_token(token), !.last_seen_at = t, !.expires_at = t]
\* The token-refresh rewrite of one row.
Rotated(r, token, t) ==
    [r EXCEPT !.session_token_hash = hash_token(token),
              !.last_seen_at = t,
              !.expires_at = t + SESSION_TTL_DAYS]

create_new_session_NoEviction(ss, u, token, dev, t) ==
    LET cleaned == cleanup_user_sessions(ss, u, t)
    IN  {Outcome(cleaned \cup {NewSession(cleaned, u, token, dev, t)}, FALSE,
                 Some(NewSession(cleaned, u, token, dev, t).id))}
\* create_or_update_session, step 3: purge, count, maybe evict, insert.
create_new_session(ss, u, token, dev, t) ==
    LET cleaned == cleanup_user_sessions(ss, u, t)
        active == ActiveSessions(cleaned, u, t)
        evicted == IF Cardinality(active) >= MAX_CONCURRENT_SESSIONS
                   THEN {Replace(cleaned, v, [v EXCEPT !.revoked = TRUE]) : v \in Oldest(active)}
                   ELSE {cleaned}
    IN  {Outcome(e \cup {NewSession(e, u, token, dev, t)}, FALSE,
                 Some(NewSession(e, u, token, dev, t).id)) : e \in evicted}

create_or_update_session_NoTokenLookup(ss, u, token, dev, t) ==
    LET device == {r \in ActiveSessions(ss, u, t) : dev # None /\ r.device = dev}
    IN  IF device # {}
        THEN {Outcome(Replace(ss, r, [Rotated(r, token, t) EXCEPT !.device = dev]),
                      FALSE, Some(r.id)) : r \in MostRecent(device)}
        ELSE create_new_session(ss, u, token, dev, t)
create_or_update_session(ss, u, token, dev, t) ==
    LET same == {r \in ss : r.session_token_hash = hash_token(token)}
        device == {r \in ActiveSessions(ss, u, t) : dev # None /\ r.device = dev}
    IN  IF same # {}
        THEN {Outcome(Replace(ss, r, [r EXCEPT !.last_seen_at = t, !.device = dev]),
                      FALSE, Some(r.id)) : r \in same}
        ELSE IF device # {}
        THEN {Outcome(Replace(ss, r, [Rotated(r, token, t) EXCEPT !.device = dev]),
                      FALSE, Some(r.id)) : r \in MostRecent(device)}
        ELSE create_new_session(ss, u, token, dev, t)

\* The UNIQUE constraint on session_token_hash: writing hash h into rows
\* fails if there are several of them or another row holds h already.
Conflicts(ss, rows, h) ==
    \/ Cardinality(rows) > 1
    \/ \E o \in ss \ rows : o.session_token_hash = h

\* update_session_token's first UPDATE, by device session id.
update_by_device(ss, u, token, dev, t) ==
    LET matching == {r \in ActiveSessions(ss, u, t) : dev # None /\ r.device = dev}
    IN  IF matching = {} THEN {Outcome(ss, FALSE, None)}
        ELSE IF Conflicts(ss, matching, hash_token(token)) THEN {Outcome(ss, TRUE, None)}
        ELSE {Outcome(Replace(ss, r, Rotated(r, token, t)), FALSE, Some(r.id)) : r \in matching}

update_by_fallback_AnySession(ss, u, token, t) ==
    LET recent == MostRecent({r \in ss : r.user_id = u})
    IN  IF recent = {} THEN {Outcome(ss, FALSE, None)}
        ELSE {Outcome(Replace(ss, r, Rotated(r, token, t)), FALSE, Some(r.id)) : r \in recent}
\* update_session_token's second UPDATE, of the most recently seen session.
update_by_fallback(ss, u, token, t) ==
    LET recent == MostRecent(ActiveSessions(ss, u, t))
    IN  IF recent = {} THEN {Outcome(ss, FALSE, None)}
        ELSE {IF Conflicts(ss, {r}, hash_token(token))
              THEN Outcome(ss, TRUE, None)
              ELSE Outcome(Replace(ss, r, Rotated(r, token, t)), FALSE, Some(r.id)) :
                  r \in recent}

update_session_token_FallbackOnly(ss, u, token, dev, t) ==
    update_by_fallback(ss, u, token, t)
update_session_token(ss, u, token, dev, t) ==
    UNION {IF o.err \/ o.id # None THEN {o} ELSE update_by_fallback(o.table, u, token, t) :
              o \in update_by_device(ss, u, token, dev, t)}

\* ---------------------------------------------------------------- actions

Tick ==
    /\ now + TickDays <= MaxTime
    /\ now' = now + TickDays
    /\ UNCHANGED <<users, task, sessions, last, ops, side_tables>>

\* POST /api/subscription/create with a valid token and billing period.
CreateSubscription(u, plan_id, billing_period) ==
    /\ users' = create_subscription(users, u, plan_id, billing_period, now)
    /\ UNCHANGED <<now, task, sessions, last, ops, side_tables>>

\* PUT /api/subscription/change-plan with a valid token, plan and period.
ChangePlan(u, plan_id) ==
    /\ users' = change_plan(users, u, plan_id, now)
    /\ UNCHANGED <<now, task, sessions, last, ops, side_tables>>

\* A webhook delivery or a manual sync that reached update_user_subscription.
SyncSubscription(u, status) ==
    /\ users' = update_user_subscription(users, u, status, now)
    /\ UNCHANGED <<now, task, sessions, last, ops, side_tables>>

\* A request task p is free to take the next request.
Free(p) == task[p].pc \in {"idle", "done"}

\* POST /api/question arrives for account u.
AskBegin(p, u) ==
    /\ Free(p)
    /\ task' = [task EXCEPT ![p] = [IdleTask EXCEPT !.pc = "ask_check", !.user = u]]
    /\ UNCHANGED <<now, users, sessions, last, ops, side_tables>>

\* ask_question_handler: the can_send_message gate.
AskCheck(p) ==
    /\ task[p].pc = "ask_check"
    /\ users' = can_send_message_table(users, task[p].user, now)
    /\ task' = [task EXCEPT ![p] =
                   IF can_send_message(users, task[p].user, now)
                   THEN [@ EXCEPT !.pc = "ask_llm"]
                   ELSE [@ EXCEPT !.pc = "done", !.resp = "too_many_requests"]]
    /\ UNCHANGED <<now, sessions, last, ops, side_tables>>

\* ask_question_handler: the completion call returns, with an answer or an error.
AskComplete(p, answered) ==
    /\ task[p].pc = "ask_llm"
    /\ task' = [task EXCEPT ![p] =
                   IF answered
                   THEN [@ EXCEPT !.pc = "ask_debit"]
                   ELSE [@ EXCEPT !.pc = "done", !.resp = "internal_error"]]
    /\ UNCHANGED <<now, users, sessions, last, ops, side_tables>>

\* Mutant: a failed debit fails the request.
DebitResponse_FailsOnError(dec) == IF dec = "no_quota" THEN "internal_error" ELSE "answer"

\* ask_question_handler: the response once the completion has succeeded; an
\* error of the debit is logged only.
DebitResponse(dec) == "answer"

\* ask_question_handler: reload the account, debit it unless premium, and
\* answer whatever the debit returned.
AskDebit(p) ==
    LET u == task[p].user
        loaded == get_user_table(users, u, now)
        debit == \E row \in get_user(users, u, now) : row.account_type # "premium"
    IN  /\ task[p].pc = "ask_debit"
        /\ users' = IF debit THEN decrement_trial_message_table(loaded, u, now) ELSE loaded
        /\ task' = [task EXCEPT ![p] =
                       [@ EXCEPT !.pc = "done",
                                 !.resp = DebitResponse(IF debit
                                                        THEN decrement_trial_message(loaded, u)
                                                        ELSE "none"),
                                 !.dec = IF debit THEN decrement_trial_message(loaded, u)
                                         ELSE "none"]]
        /\ UNCHANGED <<now, sessions, last, ops, side_tables>>

\* A direct call of decrement_trial_message(Some(u)) is issued ...
DecBegin(p, u) ==
    /\ Free(p)
    /\ task' = [task EXCEPT ![p] = [IdleTask EXCEPT !.pc = "dec_call", !.user = u]]
    /\ UNCHANGED <<now, users, sessions, last, ops, side_tables>>

\* ... and its UPDATE executes.
DecCall(p) ==
    /\ task[p].pc = "dec_call"
    /\ users' = decrement_trial_message_table(users, task[p].user, now)
    /\ task' = [task EXCEPT ![p] =
                   [@ EXCEPT !.pc = "done",
                             !.dec = decrement_trial_message(users, task[p].user)]]
    /\ UNCHANGED <<now, sessions, last, ops, side_tables>>

Next ==
    \/ Tick
    \/ \E u \in Callers, plan_id \in RequestPlanIds, billing_period \in BillingPeriods :
          CreateSubscription(u, plan_id, billing_period)
    \/ \E u \in Callers, plan_id \in PlanIds : ChangePlan(u, plan_id)
    \/ \E u \in Callers : \E status \in SubscriptionStatuses(now) : SyncSubscription(u, status)
    \/ \E p \in Tasks, u \in Callers : AskBegin(p, u)
    \/ \E p \in Tasks : AskCheck(p)
    \/ \E p \in Tasks, answered \in BOOLEAN : AskComplete(p, answered)
    \/ \E p \in Tasks : AskDebit(p)
    \/ \E p \in Tasks, u \in Callers : DecBegin(p, u)
    \/ \E p \in Tasks : DecCall(p)

\* Subscription operations, syncs, the clock and two request tasks, interleaved.
Spec == Init /\ [][Next]_vars

\* ---------------------------------------------------- two racing requests

\* The (account_type, counter) pairs the operations above produce.
QuotaRows ==
    {r \in [account_type : {"trial_registered", "individual", "professional", "team"},
            account_status : {"active"},
            deleted_at : {None},
            trial_messages_remaining : {None} \cup {Some(v) : v \in 0..RaceMaxCounter},
            premium_expires_at : {None, Some(MONTHLY_PERIOD_DAYS)},
            subscription_started_at : {None, Some(0)},
            updated_at : {0}] :
        /\ r.account_type \in {"professional", "team"} <=> r.trial_messages_remaining = None
        /\ r.account_type = "trial_registered" => r.subscription_started_at = None
        /\ r.account_type \in {"individual", "team"} => r.subscription_started_at # None}

\* Two requests for the same account are in flight at once, both direct
\* decrement calls or both questions, and nothing else runs.
InitRace ==
    /\ now = 0
    /\ \E r \in QuotaRows : users = [u \in Users |-> IF u \in Callers THEN r ELSE NewUser(0)]
    /\ \E u \in Callers, pc \in {"dec_call", "ask_check"} :
          task = [p \in Tasks |-> [IdleTask EXCEPT !.pc = pc, !.user = u]]
    /\ sessions = {}
    /\ last = NoCall
    /\ ops = 0
    /\ NoSideTables

NextRace ==
    \/ \E p \in Tasks : AskCheck(p)
    \/ \E p \in Tasks, answered \in BOOLEAN : AskComplete(p, answered)
    \/ \E p \in Tasks : AskDebit(p)
    \/ \E p \in Tasks : DecCall(p)

SpecRace == InitRace /\ [][NextRace]_vars

\* ------------------------------------------- session operations, in turn

Known(token) == \E r \in sessions : r.session_token_hash = hash_token(token)

Call(op, args, o) ==
    [op |-> op, args |-> args, known |-> Known(args[1]), err |-> o.err, id |-> o.id]

\* The tokens of account u a call may carry: every token whose hash is in the
\* table, and one whose hash is not (any two of those behave alike).
PresentTokens(u) ==
    {k \in Tokens : k.sub = u /\ \E r \in sessions : r.session_token_hash = hash_token(k)}
AbsentTokens(u) ==
    LET absent == {k \in Tokens : k.sub = u} \ PresentTokens(u)
    IN  {k \in absent : \A o \in absent : k.n <= o.n}
CallTokens == UNION {PresentTokens(u) \cup AbsentTokens(u) : u \in Users}

\* What a request carrying this token may send as device session id.
Devices(token) ==
    {None} \cup {Some(d) : d \in IF token.n \in DeviceTokenNumbers THEN DeviceIds ELSE {}}

\* An operation that counts towards a budget of max operations.
Counted(max) == ops < max /\ ops' = ops + 1

CreateOrUpdateSession(token, dev) ==
    /\ \E o \in create_or_update_session(sessions, token.sub, token, dev, now) :
          /\ sessions' = o.table
          /\ last' = Call("create_or_update_session", <<token, dev>>, o)
    /\ UNCHANGED <<now, users, task, side_tables>>

ValidateSession(token) ==
    /\ sessions' = validate_session_table(sessions, token, now)
    /\ last' = [op |-> "validate_session", args |-> <<token>>,
                known |-> Known(token), err |-> FALSE,
                id |-> validate_session(sessions, token, now)]
    /\ UNCHANGED <<now, users, task, side_tables>>

UpdateSessionToken(token, dev) ==
    /\ \E o \in update_session_token(sessions, token.sub, token, dev, now) :
          /\ sessions' = o.table
          /\ last' = Call("update_session_token", <<token, dev>>, o)
    /\ UNCHANGED <<now, users, task, side_tables>>

RevokeSession(sid, u) ==
    /\ sessions' = revoke_session_table(sessions, sid, u)
    /\ last' = [op |-> "revoke_session", args |-> <<sid, u>>,
                known |-> FALSE, err |-> FALSE,
                id |-> IF revoke_session(sessions, sid, u) THEN Some(sid) ELSE None]
    /\ UNCHANGED <<now, users, task, side_tables>>

RevokeAllSessions(u, except_token) ==
    /\ sessions' = revoke_all_sessions(sessions, u, except_token)
    /\ last' = [op |-> "revoke_all_sessions", args |-> <<u, except_token>>,
                known |-> FALSE, err |-> FALSE, id |-> None]
    /\ UNCHANGED <<now, users, task, side_tables>>

CleanupSessions ==
    /\ sessions' = cleanup_sessions(sessions, now)
    /\ last' = [op |-> "cleanup_sessions", args |-> <<>>,
                known |-> FALSE, err |-> FALSE, id |-> None]
    /\ UNCHANGED <<now, users, task, side_tables>>

NextSessions ==
    \/ Tick
    \/ \E u \in Callers : \E token \in AbsentTokens(u) : \E dev \in Devices(token) :
          UNCHANGED ops /\ CreateOrUpdateSession(token, dev)
    \/ Counted(MaxOps) /\ \E u \in Users \ Callers :
          \E token \in AbsentTokens(u) : \E dev \in Devices(token) :
              CreateOrUpdateSession(token, dev)
    \/ Counted(MaxOps) /\ \E u \in Users : \E token \in PresentTokens(u) :
          \E dev \in Devices(token) :
          CreateOrUpdateSession(token, dev)
    \/ Counted(MaxOps) /\ \E token \in CallTokens : ValidateSession(token)
    \/ Counted(MaxOps) /\ \E token \in CallTokens : \E dev \in Devices(token) :
          UpdateSessionToken(token, dev)
    \/ Counted(MaxOps) /\ \E r \in sessions, u \in Users : RevokeSession(r.id, u)
    \/ Counted(MaxOps) /\ \E u \in Users :
          \E except_token \in {None} \cup {Some(k) : k \in PresentTokens(u)} :
              RevokeAllSessions(u, except_token)
    \/ Counted(MaxOps) /\ CleanupSessions

\* The session registry's operations, one at a time: the caller's logins
\* with new tokens, clock ticks, and up to MaxOps other operations.
SpecSessions == Init /\ [][NextSessions]_vars

\* The tokens an account logs in with before it refreshes one, and the
\* logins and token refreshes of one behaviour.
MaxLogins == 2
MaxRefreshOps == 4

\* Token refresh among the sessions of several accounts: up to MaxRefreshOps
\* logins of every account with its first MaxLogins tokens and calls of
\* update_session_token, revocations by the owner, and clock ticks.
NextRefresh ==
    \/ Tick
    \/ Counted(MaxRefreshOps) /\ \E u \in Users : \E token \in AbsentTokens(u) :
          \E dev \in Devices(token) :
             token.n <= MaxLogins /\ CreateOrUpdateSession(token, dev)
    \/ \E r \in sessions : ~r.revoked /\ UNCHANGED ops /\ RevokeSession(r.id, r.user_id)
    \/ Counted(MaxRefreshOps) /\ \E token \in CallTokens : \E dev \in Devices(token) :
          UpdateSessionToken(token, dev)

SpecRefresh == Init /\ [][NextRefresh]_vars

\* ------------------------------------------ identity resolution, interleaved

\* verify_user_from_headers_async starts: the bearer token is read and
\* verify_any_token accepts or rejects it.
ResolveBegin(p, token, dev, verified) ==
    /\ task[p].pc = "idle"
    /\ task' = [task EXCEPT ![p] =
                   IF verified
                   THEN [IdleTask EXCEPT !.pc = "validate", !.user = token.sub,
                                         !.token = Some(token), !.dev = dev]
                   ELSE [IdleTask EXCEPT !.pc = "done", !.user = token.sub,
                                         !.token = Some(token), !.dev = dev,
                                         !.resp = "jwt_failed"]]
    /\ UNCHANGED <<now, users, sessions, last, ops, side_tables>>

\* On a store error the request proceeds as the JWT-verified account.
GracefulDegradation_Deny(user) == None
GracefulDegradation(user) == Some(user)

\* How a task ends: with the account's id (authenticated) or with none.
Finish(p, resp, auth, sid) ==
    [task EXCEPT ![p] = [@ EXCEPT !.pc = "done", !.resp = resp, !.auth = auth, !.sid = sid]]

\* validate_session's UPDATE executes, or the store fails it.
ResolveValidate(p, outage) ==
    LET token == CHOOSE k \in task[p].token : TRUE
        id == validate_session(sessions, token, now)
    IN  /\ task[p].pc = "validate"
        /\ IF outage
           THEN /\ task' = Finish(p, "validation_error", GracefulDegradation(task[p].user), None)
                /\ UNCHANGED sessions
           ELSE /\ sessions' = validate_session_table(sessions, token, now)
                /\ task' = IF id # None
                           THEN Finish(p, "session_validated", Some(task[p].user), id)
                           ELSE [task EXCEPT ![p].pc =
                                    IF task[p].dev # None THEN "update_device"
                                    ELSE "update_fallback"]
        /\ UNCHANGED <<now, users, last, ops, side_tables>>

\* A store outage fails a statement without any effect.
Outage(ss) == {Outcome(ss, TRUE, None)}

\* update_session_token's UPDATE by device session id executes, or fails.
ResolveUpdateDevice(p, outage) ==
    LET token == CHOOSE k \in task[p].token : TRUE
    IN  /\ task[p].pc = "update_device"
        /\ \E o \in IF outage THEN Outage(sessions)
                    ELSE update_by_device(sessions, task[p].user, token, task[p].dev, now) :
              /\ sessions' = o.table
              /\ task' = IF o.err THEN Finish(p, "update_error", GracefulDegradation(task[p].user), None)
                         ELSE IF o.id # None
                         THEN Finish(p, "token_updated", Some(task[p].user), o.id)
                         ELSE [task EXCEPT ![p].pc = "update_fallback"]
        /\ UNCHANGED <<now, users, last, ops, side_tables>>

\* update_session_token's fallback UPDATE executes, or fails.
ResolveUpdateFallback(p, outage) ==
    LET token == CHOOSE k \in task[p].token : TRUE
    IN  /\ task[p].pc = "update_fallback"
        /\ \E o \in IF outage THEN Outage(sessions)
                    ELSE update_by_fallback(sessions, task[p].user, token, now) :
              /\ sessions' = o.table
              /\ task' = IF o.err THEN Finish(p, "update_error", GracefulDegradation(task[p].user), None)
                         ELSE IF o.id # None
                         THEN Finish(p, "token_updated", Some(task[p].user), o.id)
                         ELSE Finish(p, "no_active_session", None, None)
        /\ UNCHANGED <<now, users, last, ops, side_tables>>

\* The tokens the clients of this part hold.
AuthTokens == {k \in Tokens : k.n <= MaxAuthTokens}

NextAuth ==
    \/ Tick
    \/ Counted(MaxAuthOps) /\ \E token \in CallTokens \cap AuthTokens :
          \E dev \in Devices(token) :
          CreateOrUpdateSession(token, dev)
    \/ Counted(MaxAuthOps) /\ \E r \in sessions, u \in Users : RevokeSession(r.id, u)
    \/ \E p \in AuthTasks, token \in CallTokens \cap AuthTokens, verified \in BOOLEAN :
          \E dev \in Devices(token) : ResolveBegin(p, token, dev, verified)
    \/ \E p \in AuthTasks, outage \in BOOLEAN : ResolveValidate(p, outage)
    \/ \E p \in AuthTasks, outage \in BOOLEAN : ResolveUpdateDevice(p, outage)
    \/ \E p \in AuthTasks, outage \in BOOLEAN : ResolveUpdateFallback(p, outage)

\* Up to MaxAuthOps logins and revocations and the clock, interleaved with
\* a request whose identity is being resolved statement by statement.
SpecAuth == Init /\ [][NextAuth]_vars

\* ------------------------------------------------------ account lifecycle

\* The task that runs the daily cleanup job.
JobTasks == Tasks \ AuthTasks

\* The handlers that start with verify_user_from_headers_async: POST
\* /api/auth/delete-account, POST /api/auth/restore-account, GET
\* /api/auth/user-status.
Handlers == {"delete_select", "restore_check", "status_load"}

\* A request with a signed bearer token of account u reaches one of them.
Authenticate(p, u, kind, session, handler) ==
    /\ Free(p)
    /\ task' = [task EXCEPT ![p] =
                   IF verify_user_from_headers_async(users, u, kind, session) # None
                   THEN [IdleTask EXCEPT !.pc = handler, !.user = u, !.auth = Some(u)]
                   ELSE [IdleTask EXCEPT !.pc = "done", !.user = u,
                                         !.resp = IF verify_any_token(users, u, kind)
                                                  THEN "session_revoked"
                                                  ELSE "jwt_verification_failed"]]
    /\ UNCHANGED <<now, users, sessions, last, ops, side_tables>>

Respond(p, resp) ==
    task' = [task EXCEPT ![p] = [@ EXCEPT !.pc = "done", !.resp = resp, !.loaded = None]]

Goto(p, pc) == task' = [task EXCEPT ![p] = [@ EXCEPT !.pc = pc]]

\* The handler goes on with the row it loaded.
Load(p, pc, row) == task' = [task EXCEPT ![p] = [@ EXCEPT !.pc = pc, !.loaded = Some(row)]]

\* request_delete_account_handler: load the active row, check the
\* confirmation and the team-admin guard.  subscribed is whether the row's
\* subscription_status is active; outage is a store error of one of the two
\* queries.
DeleteSelect(p, confirmation, is_admin, subscribed, outage) ==
    LET u == task[p].user
    IN  /\ task[p].pc = "delete_select"
        /\ IF ~(u \in DOMAIN users /\ users[u].account_status = "active")
           THEN Respond(p, IF outage THEN "database_error" ELSE "user_not_found")
           ELSE IF ~confirmation THEN Respond(p, "confirmation_required")
           ELSE IF outage THEN Respond(p, "database_error")
           ELSE IF is_admin /\ users[u].account_type = "team" THEN Respond(p, "team_admin")
           ELSE IF subscribed THEN Load(p, "delete_cancel", users[u])
           ELSE Load(p, "delete_soft", users[u])
        /\ UNCHANGED <<now, users, sessions, last, ops, side_tables>>

\* The values the next_billing_date column of the row can hold: nothing, or the
\* end of the paid period.
NextBillingDates(us, u) ==
    IF u \in DOMAIN us THEN {None, us[u].premium_expires_at} ELSE {None}

\* request_delete_account_handler: cancel_subscription, or a store error
\* that fails it.
DeleteCancel(p, next_billing_date, outage) ==
    /\ task[p].pc = "delete_cancel"
    /\ IF outage
       THEN UNCHANGED users /\ Respond(p, "subscription_cancel_error")
       ELSE /\ users' = cancel_subscription(users, task[p].user, next_billing_date, now)
            /\ Goto(p, "delete_soft")
    /\ UNCHANGED <<now, sessions, last, ops, side_tables>>

\* request_delete_account_handler: soft_delete_user, or a store error that
\* fails it.
DeleteSoft(p, outage) ==
    /\ task[p].pc = "delete_soft"
    /\ IF outage
       THEN UNCHANGED users /\ Respond(p, "delete_error")
       ELSE /\ users' = soft_delete_user(users, task[p].user, now)
            /\ Respond(p, "deleted")
    /\ UNCHANGED <<now, sessions, last, ops, side_tables>>

\* restore_account_handler: is_within_grace_period.
RestoreCheck(p) ==
    /\ task[p].pc = "restore_check"
    /\ IF is_within_grace_period(users, task[p].user, now)
       THEN Goto(p, "restore_update")
       ELSE Respond(p, "grace_period_expired")
    /\ UNCHANGED <<now, users, sessions, last, ops, side_tables>>

\* restore_account_handler: restore_user, then the status of the restored row.
RestoreUpdate(p) ==
    /\ task[p].pc = "restore_update"
    /\ users' = restore_user(users, task[p].user, now)
    /\ Respond(p, IF RestoreReturns(users, task[p].user, now)
                  THEN "restored" ELSE "restore_error")
    /\ UNCHANGED <<now, sessions, last, ops, side_tables>>

\* user_status_handler: get_user_status_optimized loads the account by id.
\* The response records which branch of get_user ran.
StatusLoad(p) ==
    LET u == task[p].user
    IN  /\ task[p].pc = "status_load"
        /\ users' = get_user_table(users, u, now)
        /\ Respond(p, IF get_user(users, u, now) = None THEN "status_none"
                      ELSE IF users[u].account_status = "active" THEN "status"
                      ELSE "status_restored")
        /\ UNCHANGED <<now, sessions, last, ops, side_tables>>

\* link_user_handler (login) with a signed Supabase token of account u: look
\* the account up.  An erased account has no auth.users row any more.
LinkSelect(p, u) ==
    /\ Free(p)
    /\ task' = [task EXCEPT ![p] =
          IF u \notin DOMAIN users
          THEN [IdleTask EXCEPT !.pc = "done", !.user = u, !.resp = "user_not_found"]
          ELSE IF users[u].account_status = "deleted" /\ users[u].deleted_at # None
          THEN IF \E d \in users[u].deleted_at : now < d + GRACE_PERIOD_DAYS
               THEN [IdleTask EXCEPT !.pc = "link_restore", !.user = u]
               ELSE [IdleTask EXCEPT !.pc = "done", !.user = u,
                                     !.resp = "account_permanently_deleted"]
          ELSE [IdleTask EXCEPT !.pc = "done", !.user = u, !.resp = "linked"]]
    /\ UNCHANGED <<now, users, sessions, last, ops, side_tables>>

\* link_user_handler: restore_user.
LinkRestore(p) ==
    /\ task[p].pc = "link_restore"
    /\ users' = restore_user(users, task[p].user, now)
    /\ Respond(p, IF RestoreReturns(users, task[p].user, now)
                  THEN "linked_restored" ELSE "restore_error")
    /\ UNCHANGED <<now, sessions, last, ops, side_tables>>

\* start_cleanup_job: the daily timer fires; cleanup_sessions.
JobBegin(p) ==
    /\ Free(p)
    /\ sessions' = cleanup_sessions(sessions, now)
    /\ task' = [task EXCEPT ![p] = [IdleTask EXCEPT !.pc = "job_select"]]
    /\ UNCHANGED <<now, users, last, ops, side_tables>>

\* start_cleanup_job: get_expired_deleted_users.
JobSelect(p) ==
    LET ids == get_expired_deleted_users(users, now)
    IN  /\ task[p].pc = "job_select"
        /\ task' = [task EXCEPT ![p] =
                       [@ EXCEPT !.pc = IF ids = {} THEN "done" ELSE "job_delete",
                                 !.ids = ids]]
        /\ UNCHANGED <<now, users, sessions, last, ops, side_tables>>

\* start_cleanup_job: permanently_delete_user for the next fetched id; the
\* rows that reference the account go with it.
JobDelete(p, u) ==
    /\ task[p].pc = "job_delete"
    /\ u \in task[p].ids
    /\ users' = permanently_delete_user(users, u)
    /\ sessions' = {r \in sessions : r.user_id # u}
    /\ authentication_tokens' = {k \in authentication_tokens : k.user_id # u}
    /\ task' = [task EXCEPT ![p] =
                   [@ EXCEPT !.pc = IF task[p].ids = {u} THEN "done" ELSE "job_delete",
                             !.ids = @ \ {u}]]
    /\ UNCHANGED <<now, last, ops, ip_trial_limits, webhook_secret, revoked_at>>

NextAccounts ==
    \/ Tick
    \/ \E p \in AuthTasks, u \in Callers, kind \in TokenKinds, session \in BOOLEAN,
          handler \in Handlers : Authenticate(p, u, kind, session, handler)
    \/ \E p \in AuthTasks, confirmation \in BOOLEAN, is_admin \in BOOLEAN,
          subscribed \in BOOLEAN, outage \in BOOLEAN :
             DeleteSelect(p, confirmation, is_admin, subscribed, outage)
    \/ \E p \in AuthTasks, outage \in BOOLEAN :
          \E next_billing_date \in NextBillingDates(users, task[p].user) :
             DeleteCancel(p, next_billing_date, outage)
    \/ \E p \in AuthTasks, outage \in BOOLEAN : DeleteSoft(p, outage)
    \/ \E p \in AuthTasks : RestoreCheck(p)
    \/ \E p \in AuthTasks : RestoreUpdate(p)
    \/ \E p \in AuthTasks : StatusLoad(p)
    \/ \E p \in AuthTasks, u \in Callers : LinkSelect(p, u)
    \/ \E p \in AuthTasks : LinkRestore(p)
    \/ \E p \in JobTasks : JobBegin(p)
    \/ \E p \in JobTasks : JobSelect(p)
    \/ \E p \in JobTasks : \E u \in task[p].ids : JobDelete(p, u)
    \/ \E u \in Callers \cap DOMAIN users :
          \E plan_id \in {"professional", "team"} : CreateSubscription(u, plan_id, "monthly")
    \/ \E u \in Callers \cap DOMAIN users :
          \E status \in SubscriptionStatuses(now) : SyncSubscription(u, status)

\* Deletion, restore, status and login requests of the callers, one at a
\* time, the cleanup job, subscription operations and the clock, interleaved.
SpecAccounts == Init /\ [][NextAccounts]_vars

\* --------------------------------------------------------- IP trial throttle

\* Source addresses and the device fingerprints anonymous trials are started for.
Ips == {"ip1", "ip2"}
Fingerprints == {"f1", "f2", "f3", "f4"}

\* The accounts that ask questions here: a registered one and a trial one.
Askers == {"u1", "f1"}

\* Questions asked in one behaviour.
MaxTrialAsks == 2

\* Trials one IP may start in its lifetime.
IP_TRIAL_LIMIT == 3

\* The lifetime count of the IP's row, 0 when it has none.
TrialCount(tbl, ip) == IF ip \in DOMAIN tbl THEN tbl[ip] ELSE 0

\* check_ip_trial_limits(ip): FALSE when the IP's lifetime trial count is 3 or more.
check_ip_trial_limits(tbl, ip) == TrialCount(tbl, ip) < IP_TRIAL_LIMIT

\* The upsert-increment of the IP's count.
increment_ip_trial_count(tbl, ip) ==
    [i \in DOMAIN tbl \cup {ip} |-> IF i = ip THEN TrialCount(tbl, ip) + 1 ELSE tbl[i]]

\* The row of a trial just started: 5 messages, no subscription.
NewTrial(t) == [NewUser(t) EXCEPT !.account_type = "trial_unregistered"]

\* Registered accounts exist, no trial was started from any IP.
InitTrial ==
    /\ now = 0
    /\ users = [u \in Users |-> NewUser(0)]
    /\ task = [p \in Tasks |-> IdleTask]
    /\ sessions = {}
    /\ last = NoCall
    /\ ops = 0
    /\ NoSideTables

\* POST /api/trial/start from ip for fingerprint f: rejected with
\* IP_LIMIT_EXCEEDED when the IP is at its limit, else the trial account is
\* created and the IP's count incremented.
StartTrial(ip, f) ==
    LET allowed == check_ip_trial_limits(ip_trial_limits, ip)
    IN  /\ f \notin DOMAIN users
        /\ users' = IF allowed
                    THEN [u \in DOMAIN users \cup {f} |->
                             IF u = f THEN NewTrial(now) ELSE users[u]]
                    ELSE users
        /\ ip_trial_limits' = IF allowed
                              THEN increment_ip_trial_count(ip_trial_limits, ip)
                              ELSE ip_trial_limits
        /\ last' = [NoCall EXCEPT !.op = "start_trial", !.args = <<ip, f>>,
                                  !.err = ~allowed]
        /\ UNCHANGED <<now, task, sessions, ops, authentication_tokens, webhook_secret, revoked_at>>

\* POST /api/question arrives from ip for the existing account u:
\* ask_question_handler's IP gate, before the identity is looked at.
AskFromIp(p, u, ip) ==
    /\ Counted(MaxTrialAsks)
    /\ Free(p)
    /\ u \in DOMAIN users
    /\ task' = [task EXCEPT ![p] =
                   IF check_ip_trial_limits(ip_trial_limits, ip)
                   THEN [IdleTask EXCEPT !.pc = "ask_check", !.user = u]
                   ELSE [IdleTask EXCEPT !.pc = "done", !.user = u,
                                         !.resp = "ip_trial_limit_exceeded"]]
    /\ UNCHANGED <<now, users, sessions, last, side_tables>>

NextTrial ==
    \/ \E ip \in Ips, f \in Fingerprints : StartTrial(ip, f)
    \/ \E p \in AuthTasks, u \in Askers, ip \in Ips : AskFromIp(p, u, ip)
    \/ \E p \in AuthTasks : AskCheck(p)
    \/ \E p \in AuthTasks, answered \in BOOLEAN : AskComplete(p, answered)
    \/ \E p \in AuthTasks : AskDebit(p)

\* Trial starts from two IPs and the questions of existing accounts.
SpecTrial == InitTrial /\ [][NextTrial]_vars

\* -------------------------------------------------------- single-use tokens

\* The token specification counts now in hours.
MaxHours == 24
TickHours == 12

PASSWORD_RESET_HOURS == 1
EMAIL_VERIFICATION_HOURS == 24

TokenTypes == {"password_reset", "email_verification"}

\* The random strings the handlers generate.
TokenStrings == {"k1", "k2"}

\* Lifetime of a token of the type, from forgot_password_handler and
\* request_email_verification_handler.
TokenLifetime(token_type) ==
    IF token_type = "password_reset" THEN PASSWORD_RESET_HOURS ELSE EMAIL_VERIFICATION_HOURS

\* AuthenticationToken::create.
create(tbl, user_id, token_type, token, expires_at) ==
    tbl \cup {[user_id |-> user_id, token_type |-> token_type, token |-> token,
               expires_at |-> expires_at, used_at |-> None]}

\* AuthenticationToken::find_by_token: the row, if any.
find_by_token(tbl, token, token_type) ==
    {r \in tbl : r.token = token /\ r.token_type = token_type}

\* AuthenticationToken::is_valid at time t.
is_valid(r, t) == r.used_at = None /\ t < r.expires_at

\* AuthenticationToken::mark_as_used at time t.
mark_as_used(tbl, r, t) ==
    {IF x.token = r.token /\ x.token_type = r.token_type
     THEN [x EXCEPT !.used_at = Some(t)] ELSE x : x \in tbl}

TickHour ==
    /\ now + TickHours <= MaxHours
    /\ now' = now + TickHours
    /\ UNCHANGED <<users, task, sessions, last, ops, side_tables>>

\* forgot_password_handler / request_email_verification_handler for the
\* active account u: a fresh token is stored.
IssueToken(u, token_type, token) ==
    /\ u \in DOMAIN users /\ users[u].account_status = "active"
    /\ \A r \in authentication_tokens : r.token # token
    /\ authentication_tokens' =
          create(authentication_tokens, u, token_type, token, now + TokenLifetime(token_type))
    /\ UNCHANGED <<now, users, task, sessions, last, ops, ip_trial_limits, webhook_secret, revoked_at>>

\* reset_password_handler / verify_email_handler: find_by_token, then
\* is_valid on the row that was read.
ConsumeFind(p, token, token_type) ==
    LET found == find_by_token(authentication_tokens, token, token_type)
    IN  /\ Free(p)
        /\ task' = [task EXCEPT ![p] =
              IF found = {}
              THEN [IdleTask EXCEPT !.pc = "done", !.resp = "invalid_token"]
              ELSE IF \E r \in found : is_valid(r, now)
              THEN [IdleTask EXCEPT !.pc = "consume_update", !.token = found,
                                    !.user = (CHOOSE r \in found : TRUE).user_id]
              ELSE [IdleTask EXCEPT !.pc = "done", !.resp = "token_expired", !.token = found]]
        /\ UNCHANGED <<now, users, sessions, last, ops, side_tables>>

\* reset_password_handler / verify_email_handler: UPDATE users SET
\* password_hash or email_verified.  The call is recorded; the columns are not
\* part of the account row here.
ConsumeUpdate(p) ==
    /\ task[p].pc = "consume_update"
    /\ \E r \in task[p].token :
          last' = [NoCall EXCEPT !.op = r.token_type, !.args = <<r.token, p>>]
    /\ task' = [task EXCEPT ![p] = [@ EXCEPT !.pc = "consume_mark"]]
    /\ UNCHANGED <<now, users, sessions, ops, side_tables>>

\* reset_password_handler / verify_email_handler: mark_as_used, success.
ConsumeMark(p) ==
    /\ task[p].pc = "consume_mark"
    /\ \E r \in task[p].token :
          authentication_tokens' = mark_as_used(authentication_tokens, r, now)
    /\ task' = [task EXCEPT ![p] = [@ EXCEPT !.pc = "done", !.resp = "success"]]
    /\ UNCHANGED <<now, users, sessions, last, ops, ip_trial_limits, webhook_secret, revoked_at>>

NextTokens ==
    \/ TickHour
    \/ \E u \in Callers, token_type \in TokenTypes, token \in TokenStrings :
          IssueToken(u, token_type, token)
    \/ \E p \in Tasks, token \in TokenStrings, token_type \in TokenTypes :
          ConsumeFind(p, token, token_type)
    \/ \E p \in Tasks : ConsumeUpdate(p)
    \/ \E p \in Tasks : ConsumeMark(p)

\* Token requests and two consuming requests, interleaved with the clock.
SpecTokens == Init /\ [][NextTokens]_vars

\* ------------------------------------------------------------------ webhook

\* Values of the Authorization header of a delivery; "" when it is missing.
AuthorizationHeaders ==
    {"", "Bearer ", "Bearer s1", "Bearer s2", "bearer s1", "s1", "Bearer s1 "}

\* app_user_id of a delivery: the id of an account, or a string that is no UUID.
AppUserIds == Callers \cup {"$RCAnonymousID"}

\* RevenueCatClient::verify_webhook_signature.
verify_webhook_signature(authorization_header, secret) ==
    authorization_header = "Bearer " \o secret

\* handle_revenuecat_webhook, step 1: the delivery is refused as unauthorized.
WebhookRejects(authorization) ==
    /\ webhook_secret # ""
    /\ ~verify_webhook_signature(authorization, webhook_secret)

\* The deployment's secret is any of the possible values.
InitWebhook ==
    /\ now = 0
    /\ users = [u \in Users |-> NewUser(0)]
    /\ task = [p \in Tasks |-> IdleTask]
    /\ sessions = {}
    /\ last = NoCall
    /\ ops = 0
    /\ ip_trial_limits = << >>
    /\ authentication_tokens = {}
    /\ webhook_secret \in Secrets
    /\ revoked_at = {}

\* handle_revenuecat_webhook: signature, user id, get_subscription_status
\* (fetched is its result, none on an error), update_user_subscription.
Webhook(authorization, app_user_id, fetched) ==
    LET response ==
            IF WebhookRejects(authorization) THEN "unauthorized"
            ELSE IF app_user_id \notin Users THEN "bad_request"
            ELSE IF fetched = None \/ app_user_id \notin DOMAIN users
                 THEN "internal_server_error"
            ELSE "ok"
    IN  /\ users' = IF response = "ok"
                    THEN update_user_subscription(users, app_user_id,
                                                  CHOOSE status \in fetched : TRUE, now)
                    ELSE users
        /\ last' = [NoCall EXCEPT !.op = response, !.args = <<authorization, app_user_id>>]
        /\ UNCHANGED <<now, task, sessions, ops, side_tables>>

NextWebhook ==
    \/ Tick
    \/ \E authorization \in AuthorizationHeaders, app_user_id \in AppUserIds :
          \E fetched \in {None} \cup {Some(status) : status \in SubscriptionStatuses(now)} :
             Webhook(authorization, app_user_id, fetched)

\* Webhook deliveries with any header, for a deployment with any secret.
SpecWebhook == InitWebhook /\ [][NextWebhook]_vars

\* ---------------------------------------------------------------- contracts

\* An LLM response is a sequence of pieces: the two markers, the word UGOVOR,
\* a white-space character, and a paragraph of lower-case text without that word.
START_MARKER == "[CONTRACT_START]"
END_MARKER == "[CONTRACT_END]"
Pieces == {START_MARKER, END_MARKER, "UGOVOR", " ", "paragraph"}

\* Pieces of a response.
MaxPieces == 5

\* Bytes of the paragraph piece: with UGOVOR it makes exactly 100.
ParagraphBytes == 94

\* The least content length detect_contract accepts.
MIN_CONTRACT_BYTES == 100

Responses == UNION {[1..n -> Pieces] : n \in 0..MaxPieces}

\* str::len of a piece, in bytes.
PieceBytes(piece) ==
    CASE piece = START_MARKER -> 16
      [] piece = END_MARKER -> 14
      [] piece = "UGOVOR" -> 6
      [] piece = " " -> 1
      [] OTHER -> ParagraphBytes

RECURSIVE len(_)
len(s) == IF s = << >> THEN 0 ELSE PieceBytes(Head(s)) + len(Tail(s))

contains(s, piece) == \E i \in 1..Len(s) : s[i] = piece

\* str::find: the position of the first occurrence.
find(s, piece) == CHOOSE i \in 1..Len(s) : s[i] = piece /\ \A j \in 1..(i - 1) : s[j] # piece

\* str::trim: leading and trailing white space removed.
trim(s) ==
    LET kept == {i \in 1..Len(s) : s[i] # " "}
    IN  IF kept = {} THEN << >>
        ELSE SubSeq(s, CHOOSE i \in kept : \A j \in kept : i <= j,
                       CHOOSE i \in kept : \A j \in kept : i >= j)

to_lowercase(s) == [i \in 1..Len(s) |-> IF s[i] = "UGOVOR" THEN "ugovor" ELSE s[i]]

\* contract_content.len() < 100
ContractTooShort(contract_content) == len(contract_content) < MIN_CONTRACT_BYTES

detect_contract(llm_response) ==
    IF ~contains(llm_response, START_MARKER) \/ ~contains(llm_response, END_MARKER)
    THEN None
    ELSE LET start == find(llm_response, START_MARKER)
             end == find(llm_response, END_MARKER)
             contract_content == trim(SubSeq(llm_response, start + 1, end - 1))
             clean_response == trim(SubSeq(llm_response, 1, start - 1)
                                    \o SubSeq(llm_response, end + 1, Len(llm_response)))
         IN  IF end <= start + 1 THEN None
             ELSE IF ContractTooShort(contract_content)
                     \/ ~contains(to_lowercase(contract_content), "ugovor")
             THEN None
             ELSE Some(<<contract_content, clean_response>>)

\* Any response has arrived from the LLM.
InitContracts ==
    /\ now = 0
    /\ users = [u \in Users |-> NewUser(0)]
    /\ task = [p \in Tasks |-> IdleTask]
    /\ sessions = {}
    /\ \E llm_response \in Responses :
          last = [NoCall EXCEPT !.op = "llm_response", !.args = <<llm_response>>]
    /\ ops = 0
    /\ NoSideTables

\* ask_question_handler calls detect_contract on the response.
DetectContract ==
    /\ last.op = "llm_response"
    /\ last' = [last EXCEPT !.op = "detect_contract", !.id = detect_contract(last.args[1])]
    /\ UNCHANGED <<now, users, task, sessions, ops, side_tables>>

NextContracts == DetectContract

\* detect_contract applied to every response of up to MaxPieces pieces.
SpecContracts == InitContracts /\ [][NextContracts]_vars

\* Requests that come after a revocation: up to MaxAuthOps logins and
\* revocations happen while no request is being resolved, every statement of a request
\* executes without a store outage, and the clock ticks.
NextRevoked ==
    \/ Tick
    \/ \E token \in CallTokens \cap AuthTokens : \E dev \in Devices(token) :
          /\ \A p \in AuthTasks : task[p].pc \in {"idle", "done"}
          /\ Counted(MaxAuthOps)
          /\ CreateOrUpdateSession(token, dev)
    \/ \E r \in sessions :
          /\ \A p \in AuthTasks : task[p].pc \in {"idle", "done"}
          /\ ~r.revoked
          /\ Counted(MaxAuthOps)
          /\ RevokeSession(r.id, r.user_id)
    \/ \E p \in AuthTasks, token \in CallTokens \cap AuthTokens :
          \E dev \in Devices(token) : ResolveBegin(p, token, dev, TRUE)
    \/ \E p \in AuthTasks : ResolveValidate(p, FALSE)
    \/ \E p \in AuthTasks : ResolveUpdateDevice(p, FALSE)
    \/ \E p \in AuthTasks : ResolveUpdateFallback(p, FALSE)

SpecRevoked == Init /\ [][NextRevoked]_vars

\* Deletion requests of the callers, one statement at a time, each against
\* a row nothing else writes while the request runs: subscriptions are
\* created between requests, and the clock ticks.
NextDelete ==
    \/ Tick
    \/ \E p \in AuthTasks, u \in Callers, kind \in TokenKinds, session \in BOOLEAN :
          Authenticate(p, u, kind, session, "delete_select")
    \/ \E p \in AuthTasks, confirmation \in BOOLEAN, is_admin \in BOOLEAN,
          subscribed \in BOOLEAN, outage \in BOOLEAN :
             DeleteSelect(p, confirmation, is_admin, subscribed, outage)
    \/ \E p \in AuthTasks, outage \in BOOLEAN :
          \E next_billing_date \in NextBillingDates(users, task[p].user) :
             DeleteCancel(p, next_billing_date, outage)
    \/ \E p \in AuthTasks, outage \in BOOLEAN : DeleteSoft(p, outage)
    \/ \E u \in Callers \cap DOMAIN users :
          \E plan_id \in {"professional", "team"}, billing_period \in {"monthly", "yearly"} :
             /\ \A p \in AuthTasks : Free(p)
             /\ CreateSubscription(u, plan_id, billing_period)

SpecDelete == Init /\ [][NextDelete]_vars

\* ------------------------------------------------ logins, interleaved

\* The requests that log one account in from new devices at the same time.
LoginTasks == {"t1", "t2", "t3"}

\* The logins of one behaviour: enough to fill the account's sessions and
\* then have every request log in once more.
MaxLoginCalls == MAX_CONCURRENT_SESSIONS - 1 + Cardinality(LoginTasks)

\* The token the next new device presents: one never issued before.
NewDeviceTokens == {[sub |-> u, n |-> ops + 1] : u \in Callers}

InitLogins ==
    /\ now = 0
    /\ users = [u \in Users |-> NewUser(0)]
    /\ task = [p \in LoginTasks |-> IdleTask]
    /\ sessions = {}
    /\ last = NoCall
    /\ ops = 0
    /\ NoSideTables

\* create_or_update_session starts for a new device: neither the lookup by
\* token hash nor the lookup by device session id finds a row.
LoginBegin(p, token) ==
    /\ task[p].pc = "idle"
    /\ ops < MaxLoginCalls
    /\ ops' = ops + 1
    /\ \A r \in sessions : r.session_token_hash # hash_token(token)
    /\ task' = [task EXCEPT ![p] = [IdleTask EXCEPT !.pc = "cleanup", !.user = token.sub,
                                                     !.token = Some(token)]]
    /\ UNCHANGED <<now, users, sessions, last, side_tables>>

\* cleanup_user_sessions(pool, user_id).await?
LoginCleanup(p) ==
    /\ task[p].pc = "cleanup"
    /\ sessions' = cleanup_user_sessions(sessions, task[p].user, now)
    /\ task' = [task EXCEPT ![p].pc = "count"]
    /\ UNCHANGED <<now, users, last, ops, side_tables>>

\* SELECT COUNT(*) of the account's active sessions, and the comparison with
\* MAX_CONCURRENT_SESSIONS that follows it.
LoginCount(p) ==
    /\ task[p].pc = "count"
    /\ task' = [task EXCEPT ![p].pc =
                   IF Cardinality(ActiveSessions(sessions, task[p].user, now))
                         >= MAX_CONCURRENT_SESSIONS
                   THEN "evict" ELSE "insert"]
    /\ UNCHANGED <<now, users, sessions, last, ops, side_tables>>

\* UPDATE ... SET revoked = true WHERE id = (the oldest active session).
LoginEvict(p) ==
    /\ task[p].pc = "evict"
    /\ LET active == ActiveSessions(sessions, task[p].user, now)
       IN  IF active = {} THEN sessions' = sessions
           ELSE \E v \in Oldest(active) :
                   sessions' = Replace(sessions, v, [v EXCEPT !.revoked = TRUE])
    /\ task' = [task EXCEPT ![p].pc = "insert"]
    /\ UNCHANGED <<now, users, last, ops, side_tables>>

\* INSERT INTO user_sessions ... RETURNING id, and the call returns.
LoginInsert(p) ==
    /\ task[p].pc = "insert"
    /\ \E token \in task[p].token :
          LET new == NewSession(sessions, task[p].user, token, None, now)
          IN  /\ sessions' = sessions \cup {new}
              /\ last' = [op |-> "create_or_update_session", args |-> <<token, None>>,
                          known |-> FALSE, err |-> FALSE, id |-> Some(new.id)]
    /\ task' = [task EXCEPT ![p] = IdleTask]
    /\ UNCHANGED <<now, users, ops, side_tables>>

\* A long time passes during the logins: longer than a session lives.
LoginTick ==
    /\ now = 0
    /\ now' = MaxTime
    /\ UNCHANGED <<users, task, sessions, last, ops, side_tables>>

NextLogins ==
    \/ LoginTick
    \/ \E p \in LoginTasks :
          \/ \E token \in NewDeviceTokens : LoginBegin(p, token)
          \/ LoginCleanup(p)
          \/ LoginCount(p)
          \/ LoginEvict(p)
          \/ LoginInsert(p)

SpecLogins == InitLogins /\ [][NextLogins]_vars

\* ------------------------------------------------ session retention

\* revoke_session, with the time of the revocation kept in revoked_at.
RevokeSessionAt(sid, u) ==
    /\ sessions' = revoke_session_table(sessions, sid, u)
    /\ revoked_at' = {e \in revoked_at : e.id # sid} \cup
          {[id |-> r.id, at |-> now] : r \in {x \in sessions :
                                                x.id = sid /\ x.user_id = u /\ ~x.revoked}}
    /\ last' = [op |-> "revoke_session", args |-> <<sid, u>>,
                known |-> FALSE, err |-> FALSE,
                id |-> IF revoke_session(sessions, sid, u) THEN Some(sid) ELSE None]
    /\ UNCHANGED <<now, users, task, ops, ip_trial_limits, authentication_tokens,
                   webhook_secret>>

\* The periodic cleanup among the caller's logins with the first MaxLogins
\* tokens, revocations of sessions that are not revoked yet, and clock ticks.
NextCleanup ==
    \/ Tick
    \/ \E u \in Callers : \E token \in AbsentTokens(u) : \E dev \in Devices(token) :
          token.n <= MaxLogins /\ CreateOrUpdateSession(token, dev) /\ UNCHANGED ops
    \/ \E r \in sessions : ~r.revoked /\ RevokeSessionAt(r.id, r.user_id)
    \/ CleanupSessions /\ UNCHANGED ops

SpecCleanup == Init /\ [][NextCleanup]_vars

\* ------------------------------------------------------------------ claims

Counter(u) == users[u].trial_messages_remaining
Limited(u) == users[u].account_type \notin UnlimitedTypes
Done(p) == task[p].pc = "done"

\* C1: in every reachable state every account's trial_messages_remaining is
\* NULL or at least 0, whatever decrements, monthly resets, subscription
\* creations, plan changes and billing syncs have run.
C1_CounterNeverNegative ==
    \A u \in Users : \A v \in Counter(u) : v >= 0

\* Decrements have used up an individual plan's monthly messages: the
\* counter stands at 0.
C1_Witness ==
    \E p \in Tasks :
        /\ Done(p) /\ task[p].dec = "ok"
        /\ users[task[p].user].account_type = "individual"
        /\ Counter(task[p].user) = Some(0)

\* C2: once two direct decrement calls for one limited account are both
\* pending with the counter at 1, then whenever both have returned exactly one
\* returned Ok, the other the no-quota error, and the counter is 0.
RacingDecrements(p, q) ==
    /\ p # q
    /\ task[p].pc = "dec_call" /\ task[q].pc = "dec_call"
    /\ task[p].user = task[q].user
    /\ Limited(task[p].user)
    /\ Counter(task[p].user) = Some(1)

RaceSettled(p, q) ==
    (Done(p) /\ Done(q)) =>
        /\ {task[p].dec, task[q].dec} = {"ok", "no_quota"}
        /\ Counter(task[p].user) = Some(0)

C2_OneDecrementWins ==
    \A p \in Tasks, q \in Tasks : [](RacingDecrements(p, q) => []RaceSettled(p, q))

\* Both direct calls have returned, one with Ok and one with the error.
C2_Witness ==
    /\ \A p \in Tasks : Done(p) /\ task[p].resp = "none"
    /\ {task[p].dec : p \in Tasks} = {"ok", "no_quota"}
    /\ \A p \in Tasks : Limited(task[p].user) /\ Counter(task[p].user) = Some(0)

\* C3: two concurrent questions of one account never both get their answer
\* while only one of the two debits takes effect.
C3_NoDoubleDelivery ==
    \A p \in Tasks, q \in Tasks :
        ~ /\ p # q
          /\ task[p].user = task[q].user
          /\ Done(p) /\ task[p].resp = "answer" /\ task[p].dec = "ok"
          /\ Done(q) /\ task[q].resp = "answer" /\ task[q].dec = "no_quota"
          /\ Limited(task[p].user)

\* C4: a direct decrement call on a limited account with a positive counter
\* returns Ok and lowers the counter by exactly 1; with the counter at 0 it
\* returns the no-quota error and leaves the counter as it was.
DecrementReturns(p) == task[p].pc = "dec_call" /\ task'[p].pc = "done"

C4_DecrementStep ==
    [][\A p \in Tasks : \A v \in Counter(task[p].user) :
          (DecrementReturns(p) /\ Limited(task[p].user)) =>
              LET u == task[p].user
              IN  IF v > 0
                  THEN task'[p].dec = "ok" /\ users'[u].trial_messages_remaining = Some(v - 1)
                  ELSE task'[p].dec = "no_quota" /\ users'[u] = users[u]]_vars

\* A direct call made at 0 was refused and the counter is still 0.
C4_Witness ==
    \E p \in Tasks :
        /\ Done(p) /\ task[p].resp = "none" /\ task[p].dec = "no_quota"
        /\ Limited(task[p].user) /\ Counter(task[p].user) = Some(0)

ActiveCount(ss, u, t) == Cardinality(ActiveSessions(ss, u, t))

\* This step is a call of the session operation op.
Called(op) == last'.op = op /\ UNCHANGED <<now, task>>

\* C5: after any sequence of session operations executed one at a time, every
\* account has at most 5 sessions that are neither revoked nor expired.
C5_AtMostFiveActive ==
    \A u \in Users : ActiveCount(sessions, u, now) <= MAX_CONCURRENT_SESSIONS

\* The cap is reached, an eviction has happened and other operations ran too.
C5_Witness ==
    /\ ops = MaxOps
    /\ \E u \in Users :
          /\ ActiveCount(sessions, u, now) = MAX_CONCURRENT_SESSIONS
          /\ \E r \in sessions : r.user_id = u /\ r.revoked

\* C6: create_or_update_session for an account with exactly 5 active sessions,
\* with a token whose hash is not stored and no matching device session id,
\* leaves the account with exactly 5 active sessions: the new one and the
\* previous ones except one with the smallest last_seen_at, which is revoked.
C6_SixthSessionEvictsOldest ==
    [][Called("create_or_update_session") =>
          LET token == last'.args[1]
              dev == last'.args[2]
              u == token.sub
              before == ActiveSessions(sessions, u, now)
              after == ActiveSessions(sessions', u, now)
          IN  (/\ Cardinality(before) = MAX_CONCURRENT_SESSIONS
               /\ \A r \in sessions : r.session_token_hash # hash_token(token)
               /\ \A r \in before : dev = None \/ r.device # dev)
              => /\ Cardinality(after) = MAX_CONCURRENT_SESSIONS
                 /\ \E v \in before, n \in after :
                       /\ \A o \in before : v.last_seen_at <= o.last_seen_at
                       /\ [v EXCEPT !.revoked = TRUE] \in sessions'
                       /\ n \notin before
                       /\ last'.id = Some(n.id)
                       /\ n.session_token_hash = hash_token(token)
                       /\ after = (before \ {v}) \cup {n}]_vars

\* Only logins and clock ticks have run; the sixth login revoked a session
\* older than every session that is left.
C6_Witness ==
    /\ ops = 0
    /\ last.op = "create_or_update_session"
    /\ \E u \in Callers :
          /\ ActiveCount(sessions, u, now) = MAX_CONCURRENT_SESSIONS
          /\ \E v \in sessions :
                /\ v.user_id = u /\ v.revoked
                /\ \A o \in ActiveSessions(sessions, u, now) : v.last_seen_at < o.last_seen_at
          /\ \E n \in ActiveSessions(sessions, u, now) :
                last.id = Some(n.id) /\ n.last_seen_at = now

\* C7: a token rotation for a device session id that matches an active session
\* of the account (create_or_update_session with a token not stored yet, or a
\* successful update_session_token) returns the id of such a session, which
\* now carries the new token's hash, and leaves the account's number of active
\* sessions unchanged.
C7_RotationKeepsSession ==
    [][(Called("create_or_update_session") \/ Called("update_session_token")) =>
          LET token == last'.args[1]
              dev == last'.args[2]
              u == token.sub
              matching == {r \in ActiveSessions(sessions, u, now) : r.device = dev}
              stored == \E r \in sessions : r.session_token_hash = hash_token(token)
          IN  (/\ dev # None
               /\ matching # {}
               /\ last'.op = "create_or_update_session" => ~stored
               /\ last'.op = "update_session_token" => ~last'.err)
              => /\ ~last'.err
                 /\ \E r \in matching :
                       /\ last'.id = Some(r.id)
                       /\ \E n \in sessions' :
                             n.id = r.id /\ n.session_token_hash = hash_token(token)
                 /\ ActiveCount(sessions', u, now) = ActiveCount(sessions, u, now)]_vars

\* The last call carried a token the table did not hold and a device session
\* id, and returned a session that now holds the token and is older than
\* another active session of the account: an existing session was rotated.
RotatedByDevice(op) ==
    /\ last.op = op
    /\ ~last.known
    /\ ~last.err
    /\ last.args[2] # None
    /\ \E r \in sessions, o \in sessions :
          /\ last.id = Some(r.id)
          /\ r.device = last.args[2]
          /\ r.session_token_hash = hash_token(last.args[1])
          /\ ActiveRow(r, now)
          /\ o.user_id = r.user_id /\ ActiveRow(o, now)
          /\ o.id > r.id

C7_Witness == RotatedByDevice("update_session_token")

C7_WitnessLogin == RotatedByDevice("create_or_update_session")

\* The token a resolving task carries.
TokenOf(p) == CHOOSE k \in task[p].token : TRUE

\* This step is task p's validate_session statement returning without error.
ValidateReturns(p) ==
    /\ task[p].pc = "validate"
    /\ task'[p].pc # "validate"
    /\ task'[p].resp # "validation_error"

\* C8: validate_session returns a session id only if a non-revoked,
\* non-expired session with the token's hash exists at that moment, and then
\* the same step sets that session's last_seen_at to now and changes nothing
\* else; otherwise it returns none and changes no session row, however
\* logins and revocations interleave with it.
C8_ValidateIsAtomic ==
    [][\A p \in Tasks : ValidateReturns(p) =>
          LET live == {r \in sessions : /\ r.session_token_hash = hash_token(TokenOf(p))
                                        /\ ~r.revoked
                                        /\ r.expires_at > now}
          IN  IF live # {}
              THEN \E r \in live :
                      /\ task'[p].resp = "session_validated"
                      /\ task'[p].sid = Some(r.id)
                      /\ sessions' = Replace(sessions, r, [r EXCEPT !.last_seen_at = now])
              ELSE /\ task'[p].resp # "session_validated"
                   /\ task'[p].sid = None
                   /\ sessions' = sessions]_vars

\* A request was validated against a session that was revoked afterwards, and
\* the revoked session kept the last_seen_at of that validation.
C8_Witness ==
    \E p \in Tasks, r \in sessions :
        /\ task[p].resp = "session_validated"
        /\ task[p].sid = Some(r.id)
        /\ r.session_token_hash = hash_token(TokenOf(p))
        /\ r.revoked
        /\ r.last_seen_at = now
        /\ now > 0

\* C9: with a verified token, a request that validate_session does not find
\* goes on to update_session_token, and if that ends without a store error
\* while the account has no active session the request is unauthenticated.
C9_NoSessionMeansDenied ==
    [][\A p \in Tasks :
          /\ (task[p].pc = "validate" /\ task'[p].pc = "done")
                => task'[p].resp \in {"session_validated", "validation_error"}
          /\ (/\ task[p].pc \in {"update_device", "update_fallback"}
              /\ task'[p].pc = "done"
              /\ task'[p].resp # "update_error"
              /\ ActiveSessions(sessions, task[p].user, now) = {})
                => /\ task'[p].auth = None
                   /\ sessions' = sessions]_vars

\* A request of an account whose sessions are all revoked or expired was denied.
C9_Witness ==
    \E p \in Tasks :
        /\ task[p].pc = "done"
        /\ task[p].resp = "no_active_session"
        /\ task[p].auth = None
        /\ \E r \in sessions : r.user_id = task[p].user
        /\ ActiveSessions(sessions, task[p].user, now) = {}

\* This step is a statement of task p's identity resolution failing in the store.
StoreErrorStep(p) ==
    /\ task[p].pc \in {"validate", "update_device", "update_fallback"}
    /\ task'[p].resp \in {"validation_error", "update_error"}

\* C10: when validate_session or update_session_token returns a store error
\* after the token was verified, the request is authenticated as the token's
\* account and the failed step changes no account and no session.
C10_StoreErrorStillAuthenticated ==
    [][\A p \in Tasks : StoreErrorStep(p) =>
          /\ task'[p].pc = "done"
          /\ task'[p].auth = Some(task[p].user)
          /\ task[p].user = TokenOf(p).sub
          /\ sessions' = sessions
          /\ users' = users]_vars

\* A request whose token update failed in the store was let through.
C10_Witness ==
    \E p \in Tasks :
        /\ task[p].pc = "done"
        /\ task[p].resp = "update_error"
        /\ task[p].auth = Some(task[p].user)
        /\ sessions # {}

\* This step is the can_send_message gate of task p's question returning.
CheckReturns(p) == task[p].pc = "ask_check" /\ task'[p].pc # "ask_check"

\* The gate let the question through.
Allowed(p) == task'[p].pc = "ask_llm"

\* The account's paid window ends after t.
WindowOpen(r, t) == \E e \in r.premium_expires_at : e > t

\* The account has no paid window, or one that ended before t.
WindowAbsentOrExpired(r, t) == \A e \in r.premium_expires_at : e < t

\* C11: can_send_message returns true for every active account of type
\* professional, team or premium whose premium_expires_at is in the future,
\* whatever its trial_messages_remaining is.
C11_PaidPlansAreUnlimited ==
    [][\A p \in Tasks :
          LET r == users[task[p].user]
          IN  (/\ CheckReturns(p)
               /\ r.account_status = "active"
               /\ r.account_type \in UnlimitedTypes
               /\ WindowOpen(r, now)) => Allowed(p)]_vars

\* C12: for an account whose premium_expires_at is NULL or in the past,
\* can_send_message returns true exactly if trial_messages_remaining is
\* positive once the monthly-reset sweep has run.
C12_NoWindowMeansCounter ==
    [][\A p \in Tasks :
          LET u == task[p].user
          IN  (/\ CheckReturns(p)
               /\ users[u].account_status = "active"
               /\ WindowAbsentOrExpired(users[u], now)) =>
                  (Allowed(p) <=> Positive(users'[u].trial_messages_remaining))]_vars

\* C13: a can_send_message evaluation finds an individual-plan account with a
\* subscription start and a counter of 0: if 30 days or more have passed since
\* the row's last update the counter becomes 20, otherwise it stays 0.
C13_MonthlyReset ==
    [][\A p \in Tasks, u \in Users :
          (/\ CheckReturns(p)
           /\ users[u].account_type = "individual"
           /\ users[u].subscription_started_at # None
           /\ Counter(u) = Some(0)) =>
              IF now - users[u].updated_at >= MONTHLY_RESET_DAYS
              THEN users'[u].trial_messages_remaining = Some(INDIVIDUAL_MONTHLY_MESSAGES)
              ELSE users'[u].trial_messages_remaining = Some(0)]_vars

\* A question was let through for an individual-plan account whose counter
\* stands at 20 and whose row was last written now, by no subscription
\* operation: those set the start or the end of the window from now.
C13_Witness ==
    \E p \in Tasks :
        LET r == users[task[p].user]
        IN  /\ task[p].pc = "ask_llm"
            /\ r.account_type = "individual"
            /\ r.trial_messages_remaining = Some(INDIVIDUAL_MONTHLY_MESSAGES)
            /\ r.updated_at = now
            /\ \E s \in r.subscription_started_at : s < now
            /\ \E e \in r.premium_expires_at : e # now + MONTHLY_PERIOD_DAYS

\* The request of task p runs the statement at pc in this step.
Runs(p, pc) == task[p].pc = pc /\ task'[p].pc # pc

\* The row of u is marked deleted, less than 30 days ago.
DeletedWithin(us, u, t) ==
    /\ u \in DOMAIN us
    /\ us[u].account_status = "deleted"
    /\ \E d \in us[u].deleted_at : t - d < GRACE_PERIOD_DAYS

\* C14: soft_delete_user (when the store executes it) on an active account
\* marks it deleted with deleted_at = now, and restore_user less than 30 days after that deletion
\* returns the account to account_status = active with deleted_at = null.
C14_SoftDeleteRestoreRoundTrip ==
    [][\A p \in AuthTasks :
         LET u == task[p].user
         IN  /\ (Runs(p, "delete_soft") /\ task'[p].resp = "deleted" /\ u \in DOMAIN users
                    /\ users[u].account_status = "active")
                 => /\ users'[u].account_status = "deleted"
                    /\ users'[u].deleted_at = Some(now)
             /\ ((Runs(p, "restore_update") \/ Runs(p, "link_restore"))
                    /\ DeletedWithin(users, u, now))
                 => /\ users'[u].account_status = "active"
                    /\ users'[u].deleted_at = None]_vars

\* A restore request answered with success, some days after the deletion.
C14_Witness ==
    \E p \in AuthTasks :
        LET u == task[p].user
        IN  /\ task[p].pc = "done" /\ task[p].resp = "restored"
            /\ u \in DOMAIN users
            /\ users[u].account_status = "active"
            /\ users[u].deleted_at = None
            /\ users[u].updated_at = now
            /\ now >= TickDays

\* The row of u is not restorable: not marked deleted, or deleted 30 days ago
\* or more.
NotRestorable(us, u, t) ==
    /\ u \in DOMAIN us
    /\ \/ us[u].account_status # "deleted"
       \/ \E d \in us[u].deleted_at : d + GRACE_PERIOD_DAYS <= t

\* C15: when the account is not in status deleted or deleted_at + 30 days
\* <= now, restore_account_handler rejects the request and restore_user
\* returns an error, and both leave every account row unchanged.
C15_RestoreRejectedOutsideGrace ==
    [][\A p \in AuthTasks :
         LET u == task[p].user
         IN  /\ (Runs(p, "restore_check") /\ NotRestorable(users, u, now))
                 => /\ task'[p].pc = "done"
                    /\ task'[p].resp = "grace_period_expired"
                    /\ users' = users
             /\ ((Runs(p, "restore_update") \/ Runs(p, "link_restore"))
                    /\ NotRestorable(users, u, now))
                 => /\ task'[p].resp = "restore_error"
                    /\ users' = users]_vars

\* restore_user itself refused an account whose grace period ran out after
\* the handler's check; the row is still deleted with its deleted_at.
C15_Witness ==
    \E p \in AuthTasks :
        LET u == task[p].user
        IN  /\ task[p].pc = "done" /\ task[p].resp = "restore_error"
            /\ u \in DOMAIN users
            /\ users[u].account_status = "deleted"
            /\ \E d \in users[u].deleted_at : d + GRACE_PERIOD_DAYS <= now

\* The handler refused an account deleted 30 days ago or more.
C15_WitnessHandler ==
    \E p \in AuthTasks :
        LET u == task[p].user
        IN  /\ task[p].pc = "done" /\ task[p].resp = "grace_period_expired"
            /\ u \in DOMAIN users
            /\ users[u].account_status = "deleted"
            /\ \E d \in users[u].deleted_at : d + GRACE_PERIOD_DAYS <= now

\* C16: in every reachable state, every account with account_status =
\* deleted has a non-null deleted_at, whatever soft deletes, restores,
\* auto-restores, subscription and sync operations came before.
C16_DeletedHasDeletedAt ==
    \A u \in DOMAIN users :
        users[u].account_status = "deleted" => users[u].deleted_at # None

\* A deleted account whose row a subscription or sync operation wrote after
\* the deletion.
C16_Witness ==
    \E u \in DOMAIN users :
        /\ users[u].account_status = "deleted"
        /\ users[u].account_type = "individual"
        /\ \E d \in users[u].deleted_at : users[u].updated_at > d

\* The request of task p gets its response in this step.
Completes(p) == task'[p].pc = "done" /\ task'[p] # task[p]

\* C17: whenever a soft-deleted account within its 30-day grace period logs
\* in or makes an API request with its bearer token and a live session, the
\* account is active with deleted_at cleared afterwards.
C17_AccessRestoresWithinGrace ==
    [][\A p \in AuthTasks :
         LET u == task'[p].user
         IN  (Completes(p) /\ task'[p].resp # "session_revoked"
                /\ DeletedWithin(users, u, now))
             => /\ users'[u].account_status = "active"
                /\ users'[u].deleted_at = None]_vars

\* What does hold: a login, and a request whose token resolved to the
\* account and whose handler loads it with get_user, restore it.
C17_LoadedByGetUserRestores ==
    [][\A p \in AuthTasks :
         LET u == task[p].user
         IN  ((Runs(p, "status_load") \/ Runs(p, "link_restore"))
                /\ DeletedWithin(users, u, now))
             => /\ users'[u].account_status = "active"
                /\ users'[u].deleted_at = None]_vars

\* C18: the cleanup job permanently erases an account only if, at that time,
\* its account_status is deleted and deleted_at + 30 days has passed; an
\* active account or a deleted account within its grace period is never
\* erased, whatever restores and auto-restores are interleaved with the job.
C18_ErasesOnlyExpiredDeleted ==
    [][\A u \in DOMAIN users :
         u \notin DOMAIN users'
         => /\ \E p \in JobTasks : task[p].pc = "job_delete" /\ u \in task[p].ids
            /\ users[u].account_status = "deleted"
            /\ \E d \in users[u].deleted_at : d + GRACE_PERIOD_DAYS < now]_vars

\* The job finished after erasing one account and left the active one alone.
C18_Witness ==
    /\ \E p \in JobTasks : task[p].pc = "done"
    /\ \E u \in Callers : u \notin DOMAIN users
    /\ \E u \in DOMAIN users : users[u].account_status = "active"

\* A trial start from ip for fingerprint f is answered in this step.
TrialStartAnswered(ip, f) ==
    /\ last'.op = "start_trial"
    /\ last'.args = <<ip, f>>
    /\ last' # last

\* For each IP the first 3 trial starts succeed and every later one is
\* rejected, whatever the fingerprint, and the IP's count never decreases.
ThrottleCounts ==
    /\ \A ip \in Ips, f \in Fingerprints :
          TrialStartAnswered(ip, f)
          => /\ f \in DOMAIN users' <=> TrialCount(ip_trial_limits, ip) < IP_TRIAL_LIMIT
             /\ last'.err <=> f \notin DOMAIN users'
             /\ TrialCount(ip_trial_limits', ip) =
                   TrialCount(ip_trial_limits, ip) + (IF last'.err THEN 0 ELSE 1)
    /\ \A ip \in Ips : TrialCount(ip_trial_limits', ip) >= TrialCount(ip_trial_limits, ip)

\* No question of an existing account is refused for the IP's trial count.
CreatedAccountsUsable ==
    \A p \in AuthTasks :
        Completes(p) => task'[p].resp # "ip_trial_limit_exceeded"

\* C19: for each source IP exactly the first 3 anonymous trial creations
\* succeed and every later one is rejected, regardless of the account or
\* device fingerprint; the IP's lifetime count never decreases; and the
\* accounts already created remain usable.
C19_IpThrottleSparesAccounts == [][ThrottleCounts /\ CreatedAccountsUsable]_vars

\* The throttle's own part of C19, which holds.
C19_ThrottleCounts == [][ThrottleCounts]_vars

\* The fourth trial start from one IP was rejected.
C19_FourthRejected ==
    /\ last.op = "start_trial" /\ last.err
    /\ \E ip \in Ips : last.args[1] = ip /\ TrialCount(ip_trial_limits, ip) = IP_TRIAL_LIMIT
    /\ Cardinality(DOMAIN users \cap Fingerprints) = IP_TRIAL_LIMIT

\* The request of task p passes the validity check in this step.
Accepted(p) == task[p].pc # "consume_update" /\ task'[p].pc = "consume_update"

\* A token is accepted only while its used_at is null and now < expires_at.
AcceptedOnlyWhileValid ==
    \A p \in Tasks :
        Accepted(p) => \A r \in task'[p].token :
                          /\ r \in authentication_tokens
                          /\ r.used_at = None
                          /\ now < r.expires_at

\* A request succeeds only with a token no request has succeeded with before.
ConsumedAtMostOnce ==
    \A p \in Tasks :
        Runs(p, "consume_mark")
        => \A r \in task[p].token :
              \A x \in find_by_token(authentication_tokens, r.token, r.token_type) :
                 x.used_at = None

\* C20: a single-use token is accepted only while used_at is null and
\* now < expires_at, and is consumed successfully at most once: after one
\* reset_password_handler / verify_email_handler request succeeded with it,
\* no other request with the same token succeeds, in any interleaving.
C20_TokenConsumedOnce == [][AcceptedOnlyWhileValid /\ ConsumedAtMostOnce]_vars

\* The validity check's part of C20, which holds.
C20_AcceptedOnlyWhileValid == [][AcceptedOnlyWhileValid]_vars

\* C21: handle_revenuecat_webhook changes an account only when the
\* Authorization header is exactly "Bearer <webhook secret>"; a delivery with
\* a missing or different header is not processed and leaves every account
\* unchanged.
C21_WebhookNeedsSecret ==
    [][\A authorization \in AuthorizationHeaders :
         (last'.op # "none" /\ Len(last'.args) = 2 /\ last'.args[1] = authorization
            /\ authorization # "Bearer " \o webhook_secret)
         => /\ last'.op # "ok"
            /\ users' = users]_vars

\* With a secret configured the claim of C21 holds.
C21_ConfiguredSecretIsChecked ==
    [][\A authorization \in AuthorizationHeaders :
         (webhook_secret # "" /\ last'.op # "none" /\ Len(last'.args) = 2
            /\ last'.args[1] = authorization
            /\ authorization # "Bearer " \o webhook_secret)
         => /\ last'.op = "unauthorized"
            /\ users' = users]_vars

\* The text between the first markers of the response.
Block(r) == SubSeq(r, find(r, START_MARKER) + 1, find(r, END_MARKER) - 1)

\* The response has a [CONTRACT_START] ... [CONTRACT_END] block whose text
\* contains the word ugovor.
HasContractBlock(r) ==
    /\ contains(r, START_MARKER) /\ contains(r, END_MARKER)
    /\ find(r, START_MARKER) < find(r, END_MARKER)
    /\ contains(to_lowercase(Block(r)), "ugovor")

\* C22: for every LLM response with a [CONTRACT_START] ... [CONTRACT_END]
\* block whose text contains "ugovor", short or long, detect_contract returns
\* Some((contract, clean)) where contract is the text between the markers
\* and clean contains neither marker.
C22_DetectsEveryContractBlock ==
    last.op = "detect_contract"
    => (HasContractBlock(last.args[1])
          => \E result \in last.id :
                /\ result[1] = trim(Block(last.args[1]))
                /\ ~contains(result[2], START_MARKER)
                /\ ~contains(result[2], END_MARKER))

\* What holds: a block of 100 bytes or more in a response with one pair of
\* markers is detected and the markers are gone from the clean answer.
C22_DetectsLongSingleBlock ==
    last.op = "detect_contract"
    => ((/\ HasContractBlock(last.args[1])
           /\ len(trim(Block(last.args[1]))) >= MIN_CONTRACT_BYTES
           /\ Cardinality({i \in 1..Len(last.args[1]) :
                             last.args[1][i] \in {START_MARKER, END_MARKER}}) = 2)
          => \E result \in last.id :
                /\ result[1] = trim(Block(last.args[1]))
                /\ ~contains(result[2], START_MARKER)
                /\ ~contains(result[2], END_MARKER))

Touched(ss, ss2) == {r \in ss : r \notin ss2}

C25_SameTokenIsIdempotent ==
    [][Called("create_or_update_session") =>
          LET token == last'.args[1]
              dev == last'.args[2]
              stored == {r \in sessions : r.session_token_hash = hash_token(token)}
          IN  stored # {} =>
                 /\ ~last'.err
                 /\ \E r \in stored :
                       /\ last'.id = Some(r.id)
                       /\ sessions' = Replace(sessions, r,
                                         [r EXCEPT !.last_seen_at = now, !.device = dev])
                 /\ {r.id : r \in sessions'} = {r.id : r \in sessions}
                 /\ {r.id : r \in {x \in sessions' : x.revoked}} =
                       {r.id : r \in {x \in sessions : x.revoked}}
                 /\ \A u \in Users :
                       ActiveCount(sessions', u, now) = ActiveCount(sessions, u, now)]_vars

\* create_or_update_session was called with a stored token some time after
\* that session was created, for an account at the session limit:
\* it returned the session, now seen at the current time.
C25_Witness ==
    /\ last.op = "create_or_update_session"
    /\ last.known
    /\ ~last.err
    /\ \E r \in sessions :
          /\ last.id = Some(r.id)
          /\ r.session_token_hash = hash_token(last.args[1])
          /\ r.last_seen_at = now
          /\ r.expires_at < now + SESSION_TTL_DAYS
          /\ ActiveRow(r, now)
          /\ ActiveCount(sessions, r.user_id, now) = MAX_CONCURRENT_SESSIONS

\* C26: while create_or_update_session calls for new devices of one account
\* interleave statement by statement, the account never has more than one
\* active session above MAX_CONCURRENT_SESSIONS.
C26_AtMostOneAboveLimit ==
    \A u \in Users : ActiveCount(sessions, u, now) <= MAX_CONCURRENT_SESSIONS + 1

\* However the calls interleave, each request in flight adds at most one
\* session to a count that was below the limit when that request counted.
C26_AtMostOnePerRequest ==
    \A u \in Users :
       ActiveCount(sessions, u, now) <= MAX_CONCURRENT_SESSIONS - 1 + Cardinality(LoginTasks)

\* The time at which the session with this id was revoked.
RevokedSince(id) == (CHOOSE e \in revoked_at : e.id = id).at

\* What the retention rule lets the cleanup delete: a session whose expiry
\* has passed, one revoked more than REVOKED_RETENTION_DAYS ago, and one that
\* is not revoked and was last seen more than STALE_RETENTION_DAYS ago.
PastRetention(r) ==
    \/ r.expires_at < now
    \/ r.revoked /\ RevokedSince(r.id) < now - REVOKED_RETENTION_DAYS
    \/ ~r.revoked /\ r.last_seen_at < now - STALE_RETENTION_DAYS

\* C27: cleanup_sessions deletes exactly the sessions that are expired, or
\* were revoked more than 7 days ago, or are not revoked and were last seen
\* more than 90 days ago, and leaves every other row as it is; a session
\* revoked less than 7 days ago and not expired is kept.
C27_CleanupDeletesPastRetention ==
    [][Called("cleanup_sessions") =>
          sessions' = {r \in sessions : ~PastRetention(r)}]_vars

\* cleanup_sessions deletes exactly the rows its DELETE statement selects,
\* where a revoked session is selected by when it was last seen, and leaves
\* every other row as it is.
C27_CleanupDeletesStale ==
    [][Called("cleanup_sessions") =>
          sessions' = {r \in sessions :
                          ~(\/ r.expires_at < now
                            \/ r.revoked /\ r.last_seen_at < now - REVOKED_RETENTION_DAYS
                            \/ ~r.revoked /\ r.last_seen_at < now - STALE_RETENTION_DAYS)}]_vars

\* Task p's request ends in this step, and it carries a token whose hash a
\* revoked session holds.
RevokedTokenResolved(p) ==
    /\ task[p].pc \in {"validate", "update_device", "update_fallback"}
    /\ task'[p].pc = "done"
    /\ \E r \in sessions : r.revoked /\ r.session_token_hash = hash_token(TokenOf(p))

\* C28: a request that carries the verified token of a revoked session is
\* denied by verify_user_from_headers_async (the result is none) whatever
\* other sessions the account has, and leaves every session row as it is.
C28_RevokedTokenDenied ==
    [][\A p \in AuthTasks :
          RevokedTokenResolved(p) => task'[p].auth = None /\ sessions' = sessions]_vars

\* A request that carries the token of a revoked session is never answered
\* as validated or as a token refresh, and rewrites no session row: it ends
\* denied because the account has no active session, or authenticated by
\* the handling of the store error its token update ran into.
C28_RevokedTokenNeverRewrites ==
    [][\A p \in AuthTasks :
          RevokedTokenResolved(p) =>
             /\ task'[p].resp \in {"no_active_session", "update_error"}
             /\ sessions' = sessions
             /\ task'[p].resp = "update_error" <=>
                   ActiveSessions(sessions, task[p].user, now) # {}]_vars

\* The answers of request_delete_account_handler that are errors.
DeleteErrors ==
    {"user_not_found", "database_error", "confirmation_required", "team_admin",
     "subscription_cancel_error", "delete_error"}

\* The columns of a row the deletion request is about.
AccountColumns(row) ==
    <<row.account_status, row.deleted_at, row.premium_expires_at,
      row.subscription_started_at>>

\* C29: whenever request_delete_account_handler answers with an error, the
\* account's status, deleted_at and subscription columns are what they were
\* when the handler loaded the row.
C29_DeleteIsAllOrNothing ==
    [][\A p \in AuthTasks :
          (/\ task[p].pc \in {"delete_select", "delete_cancel", "delete_soft"}
           /\ task'[p].pc = "done"
           /\ task'[p].resp \in DeleteErrors)
          => /\ users' = users
             /\ \A row \in task[p].loaded :
                   AccountColumns(users'[task[p].user]) = AccountColumns(row)]_vars

\* No statement of the handler that ends the request with an error writes
\* the row itself, and an error before cancel_subscription has run leaves the
\* columns as the handler loaded them.
C29_FailingStatementWritesNothing ==
    [][\A p \in AuthTasks :
          (/\ task[p].pc \in {"delete_select", "delete_cancel", "delete_soft"}
           /\ task'[p].pc = "done"
           /\ task'[p].resp \in DeleteErrors)
          => /\ users' = users
             /\ task[p].pc # "delete_soft" =>
                   \A row \in task[p].loaded :
                      AccountColumns(users'[task[p].user]) = AccountColumns(row)]_vars

\* The row is a registered trial without messages left.
Downgraded(row) ==
    row.account_type = "trial_registered" /\ row.trial_messages_remaining = Some(0)

\* C30: a step in which update_user_subscription applies a status that is
\* neither active nor in grace period leaves the account trial_registered
\* with trial_messages_remaining = 0 and can_send_message false; and while
\* an account is in that state can_send_message is false for it and only a
\* subscription operation or a sync (a step of no request and not of the
\* clock) takes it out of that state.
C30_DowngradeBlocksMessages ==
    [][\A u \in Callers :
          /\ \A status \in SubscriptionStatuses(now) :
                (/\ ~status.is_active /\ ~status.in_grace_period
                 /\ users' = update_user_subscription(users, u, status, now)
                 /\ UNCHANGED <<now, task>>)
                => /\ Downgraded(users'[u])
                   /\ ~can_send_message(users', u, now)
          /\ Downgraded(users[u]) =>
                /\ ~can_send_message(users, u, now)
                /\ (now' # now \/ task' # task) => Downgraded(users'[u])]_vars

\* An account that had a subscription was downgraded by a sync, and a
\* question asked for it afterwards was refused at the gate.
C30_Witness ==
    \E p \in Tasks :
       LET u == task[p].user
       IN  /\ task[p].pc = "done"
           /\ task[p].resp = "too_many_requests"
           /\ Downgraded(users[u])
           /\ users[u].subscription_started_at # None
           /\ users[u].premium_expires_at = None
====
